---- MODULE Spec2Model ----
(***************************************************************************)
(* A model of the sentiment trend analytics engine of kopi_sentiment      *)
(* (src/src/kopi_sentiment/analytics): the velocity / anomaly detector,   *)
(* the score builder, exponential smoothing, rate of change and report    *)
(* generation.                                                            *)
(*                                                                         *)
(* Numbers.  Python floats are modelled as exact reals.  A rational is a  *)
(* pair <<n, d>> in lowest terms with d > 0.  A standard deviation is the *)
(* square root of a rational, so a value of the form sign * sqrt(q) (a    *)
(* "surd") is the record [s |-> sign, q |-> q] with q the rational square.*)
(***************************************************************************)
EXTENDS Integers, Sequences, FiniteSets, TLC

VARIABLES
    pc,            \* position of the run that is modelled
    config,        \* the AnalyticsConfig fields the run reads
    data_points,   \* SentimentTimeSeries.data_points (list of DailySentimentScore)
    velocity,      \* the VelocityReport returned by VelocityCalculator.calculate
    hist_sample,   \* the local hist_velocities of each _calculate_metric call
    z_scores,      \* the z-scores handed to get_alert_severity
    severities,    \* the severities get_alert_severity returned for them
    roc_args,      \* the arguments (current, values, lookback) of _rate_of_change
    roc_result,    \* what the call returned, with the recursive calls it made
    daily_data,    \* the loaded period reports (daily_data / weekly_reports)
    engagement_stats, \* the result of _compute_engagement_stats
    quote_z,       \* the engagement z-score computed for each quote
    calculator,    \* which generate_report runs: "daily" or "weekly"
    files,         \* the JSON files of the data directory (quotes in each)
    computed,      \* the analyses generate_report has computed so far
    outcome,       \* what generate_report returned or raised
    ez_args,       \* the arguments of _calculate_engagement_z
    ez_result,     \* the engagement z-score it returned
    trend_args,    \* the scores and slope threshold of a trend fit
    trend_result,  \* the (slope, r_squared, trend) of the daily and weekly fit
    config_file,   \* the contents of analytics_config.json
    calib_args,    \* the reports of --data-dir and the --dry-run flag
    calib,         \* the locals and the exit of calibrate.main
    fetchers,      \* RedditScraper.fetchers: what each fetcher does when called
    scraper,       \* the loop of _try_fetchers: calls made, last_error, outcome
    metric_args,   \* the arguments of VelocityCalculator._calculate_metric
    metric_result, \* the (metric, alert) it returned
    momentum       \* the MomentumReport of MomentumCalculator.calculate

vars ==
    <<pc, config, data_points, velocity, hist_sample, z_scores, severities,
      roc_args, roc_result, daily_data, engagement_stats, quote_z,
      calculator, files, computed, outcome, ez_args, ez_result,
      trend_args, trend_result, config_file, calib_args, calib, fetchers, scraper,
      metric_args, metric_result, momentum>>

\* the variables of each component, and their value while it is not running
velocityVars == <<velocity, hist_sample>>
severityVars == <<z_scores, severities>>
rocVars == <<roc_args, roc_result>>
scoreVars == <<daily_data, engagement_stats, quote_z>>
reportVars == <<calculator, files, computed, outcome>>
engagementVars == <<ez_args, ez_result>>
trendVars == <<trend_args, trend_result>>
calibVars == <<config_file, calib_args, calib>>
scraperVars == <<fetchers, scraper>>
metricVars == <<metric_args, metric_result>>
momentumVars == <<momentum>>
\* the components of the later sections
otherVars == <<engagementVars, trendVars, calibVars, scraperVars, metricVars, momentumVars>>

IdleSeries == data_points = <<>>
IdleVelocity == velocity = <<>> /\ hist_sample = <<>>
IdleSeverity == z_scores = <<>> /\ severities = <<>>
IdleRoc == roc_args = <<>> /\ roc_result = <<>>
IdleScore == daily_data = <<>> /\ engagement_stats = <<>> /\ quote_z = <<>>
IdleReport == calculator = "None" /\ files = <<>> /\ computed = {} /\ outcome = <<>>
IdleEngagement == ez_args = <<>> /\ ez_result = <<>>
IdleTrend == trend_args = <<>> /\ trend_result = <<>>
IdleCalib == config_file = <<>> /\ calib_args = <<>> /\ calib = <<>>
IdleScraper == fetchers = <<>> /\ scraper = <<>>
IdleMetric == metric_args = <<>> /\ metric_result = <<>>
IdleMomentum == momentum = <<>>
IdleOthers ==
    IdleEngagement /\ IdleTrend /\ IdleCalib /\ IdleScraper /\ IdleMetric /\ IdleMomentum

None == "None"

(***************************************************************************)
(* Exact arithmetic                                                        *)
(***************************************************************************)
Abs(x) == IF x < 0 THEN -x ELSE x

Sign(x) == IF x < 0 THEN -1 ELSE IF x > 0 THEN 1 ELSE 0

RECURSIVE GCD(_, _)
GCD(a, b) == IF b = 0 THEN a ELSE GCD(b, a % b)

\* The rational n/d in lowest terms (d # 0).
R(n, d) ==
    LET m == IF d < 0 THEN -n ELSE n
        e == Abs(d)
        g == GCD(Abs(m), e)
    IN  <<m \div g, e \div g>>

RI(x) == <<x, 1>>

RAdd(a, b) == R(a[1] * b[2] + b[1] * a[2], a[2] * b[2])
RSub(a, b) == R(a[1] * b[2] - b[1] * a[2], a[2] * b[2])
RMul(a, b) == R(a[1] * b[1], a[2] * b[2])
RDiv(a, b) == R(a[1] * b[2], a[2] * b[1])
RNeg(a) == <<-a[1], a[2]>>
RAbs(a) == <<Abs(a[1]), a[2]>>
RLt(a, b) == a[1] * b[2] < b[1] * a[2]
RLe(a, b) == a[1] * b[2] <= b[1] * a[2]
RSign(a) == Sign(a[1])

\* A value given in hundredths (1.5 is 150), as the JSON configuration writes it.
Hundredths(h) == R(h, 100)

RECURSIVE SumSeq(_)
SumSeq(s) == IF s = <<>> THEN 0 ELSE s[1] + SumSeq(Tail(s))

Front(s) == SubSeq(s, 1, Len(s) - 1)

Last(s) == s[Len(s)]

\* statistics.mean of a list of integers.
mean(s) == R(SumSeq(s), Len(s))

\* The square of statistics.stdev (the sample variance) of a list of integers,
\* Len(s) >= 2: sum((x - mean)^2) / (n - 1) = sum((n*x - S)^2) / (n^2 * (n - 1)).
variance(s) ==
    LET n == Len(s)
        S == SumSeq(s)
    IN  R(SumSeq([i \in 1..n |-> (n * s[i] - S) * (n * s[i] - S)]), n * n * (n - 1))

\* sign * sqrt(q) values.
Surd(sgn, q) == [s |-> IF q[1] = 0 THEN 0 ELSE sgn, q |-> q]
SurdOfRat(r) == Surd(RSign(r), RMul(r, r))
SurdOfInt(x) == SurdOfRat(RI(x))
SurdZero == SurdOfInt(0)

\* statistics.stdev: the square root of the sample variance.
stdev(s) == Surd(1, variance(s))

\* rational / surd, the surd positive.
RDivSurd(r, sd) == Surd(RSign(r), RDiv(RMul(r, r), sd.q))

\* abs(z) >= t for a surd z and a rational t.
AbsGe(z, t) == RSign(t) <= 0 \/ RLe(RMul(t, t), z.q)

\* z >= t, without the abs.
SurdGe(z, t) ==
    IF RSign(t) <= 0
    THEN z.s >= 0 \/ RLe(z.q, RMul(t, t))
    ELSE z.s > 0 /\ RLe(RMul(t, t), z.q)

(***************************************************************************)
(* Configuration defaults                                                  *)
(***************************************************************************)
\* AlertThresholds, in hundredths.
DefaultNotable == 100
DefaultWarning == 150
DefaultAlert == 200
DefaultSignificantZ == 200
\* VelocityConfig.lookback_days
DefaultLookbackDays == 7

AlertThresholds(n, w, a, sig) ==
    [notable |-> Hundredths(n), warning |-> Hundredths(w),
     alert |-> Hundredths(a), significant_z |-> Hundredths(sig)]

DefaultThresholds ==
    AlertThresholds(DefaultNotable, DefaultWarning, DefaultAlert, DefaultSignificantZ)

(***************************************************************************)
(* config.get_alert_severity                                               *)
(***************************************************************************)
get_alert_severity_signed(z_score, thresholds) ==
    IF SurdGe(z_score, thresholds.alert) THEN "alert"
    ELSE IF SurdGe(z_score, thresholds.warning) THEN "warning"
    ELSE IF SurdGe(z_score, thresholds.notable) THEN "notable"
    ELSE "none"

get_alert_severity(z_score, thresholds) ==
    IF AbsGe(z_score, thresholds.alert) THEN "alert"
    ELSE IF AbsGe(z_score, thresholds.warning) THEN "warning"
    ELSE IF AbsGe(z_score, thresholds.notable) THEN "notable"
    ELSE "none"

(***************************************************************************)
(* velocity.VelocityCalculator                                             *)
(***************************************************************************)
METRIC_CONFIGS ==
    << <<"composite_score", None>>,
       <<"fears_zscore_sum", "fears">>,
       <<"frustrations_zscore_sum", "frustrations">>,
       <<"optimism_zscore_sum", "optimism">> >>

\* first differences of a series, Len(values) >= 2
Velocities(values) == [i \in 1..(Len(values) - 1) |-> values[i + 1] - values[i]]

HistVelocities_with_current(velocities) == velocities

\* velocity.py: hist_velocities = velocities[:-1] if len(velocities) > 1 else velocities
HistVelocities(velocities) ==
    IF Len(velocities) > 1 THEN Front(velocities) ELSE velocities

_empty_metric_std_one(metric_name, values) ==
    [metric_name |-> metric_name,
     current_value |-> IF values # <<>> THEN Last(values) ELSE 0,
     velocity |-> 0,
     velocity_zscore |-> SurdZero,
     acceleration |-> 0,
     historical_mean |-> RI(0),
     historical_std |-> SurdOfInt(1),
     alert_level |-> "none"]

_empty_metric(metric_name, values) ==
    [metric_name |-> metric_name,
     current_value |-> IF values # <<>> THEN Last(values) ELSE 0,
     velocity |-> 0,
     velocity_zscore |-> SurdZero,
     acceleration |-> 0,
     historical_mean |-> RI(0),
     historical_std |-> SurdZero,
     alert_level |-> "none"]

_alert_description(metric, z_score, direction, category, thresholds) ==
    [subject |-> IF category # None THEN category ELSE "Overall sentiment",
     magnitude |-> IF AbsGe(z_score, thresholds.significant_z)
                   THEN "significantly" ELSE "notably",
     dir_word |-> IF direction = "rising" THEN "increased" ELSE "decreased"]

\* alert_id (a random uuid) and percentile (erf) are left out of the record.
_create_alert(metric_name, category, current_velocity, expected, z_score, report_date, thresholds) ==
    LET direction == IF z_score.s > 0 THEN "rising" ELSE "falling"
    IN  [triggered_at |-> report_date,
         severity |-> get_alert_severity(z_score, thresholds),
         metric |-> metric_name,
         category |-> category,
         current_value |-> current_velocity,
         expected_value |-> expected,
         z_score |-> z_score,
         direction |-> direction,
         description |-> _alert_description(metric_name, z_score, direction,
                                            category, thresholds)]

AlertLevels_with_notable == {"notable", "warning", "alert"}

\* velocity.py: if alert_level in (AlertSeverity.WARNING, AlertSeverity.ALERT)
AlertLevels == {"warning", "alert"}

\* Returns the pair (metric, alert); the optional alert is a list of at most
\* one element, <<>> standing for Python's None.
_calculate_metric(metric_name, values, category, report_date, thresholds) ==
    IF Len(values) < 2
    THEN [metric |-> _empty_metric(metric_name, values), alert |-> <<>>]
    ELSE
    LET velocities == Velocities(values)
        current_velocity == Last(velocities)
        hist_velocities == HistVelocities(velocities)
        hist_mean == mean(hist_velocities)
        hist_std == IF Len(hist_velocities) > 1
                    THEN stdev(hist_velocities) ELSE SurdOfInt(1)
        velocity_zscore ==
            IF hist_std.s > 0
            THEN RDivSurd(RSub(RI(current_velocity), hist_mean), hist_std)
            ELSE SurdZero
        acceleration ==
            IF Len(velocities) >= 2
            THEN velocities[Len(velocities)] - velocities[Len(velocities) - 1]
            ELSE 0
        alert_level == get_alert_severity(velocity_zscore, thresholds)
    IN  [metric |->
            [metric_name |-> metric_name,
             current_value |-> Last(values),
             velocity |-> current_velocity,
             velocity_zscore |-> velocity_zscore,
             acceleration |-> acceleration,
             historical_mean |-> hist_mean,
             historical_std |-> hist_std,
             alert_level |-> alert_level],
         alert |->
            IF alert_level \in AlertLevels
            THEN <<_create_alert(metric_name, category, current_velocity,
                                 hist_mean, velocity_zscore, report_date, thresholds)>>
            ELSE <<>>]

severity_order(sev) ==
    CASE sev = "alert" -> 0
      [] sev = "warning" -> 1
      [] sev = "notable" -> 2
      [] sev = "none" -> 3

\* Insert a after the entries of the sorted list s whose key is <= its own.
RECURSIVE InsertStable(_, _)
InsertStable(s, a) ==
    IF s = <<>> THEN <<a>>
    ELSE IF severity_order(s[1].severity) <= severity_order(a.severity)
         THEN <<s[1]>> \o InsertStable(Tail(s), a)
         ELSE <<a>> \o s

RECURSIVE SortedStable(_)
SortedStable(s) ==
    IF s = <<>> THEN <<>>
    ELSE InsertStable(SortedStable(Front(s)), Last(s))

_sort_alerts_unsorted(alerts) == alerts

\* sorted(alerts, key=lambda a: severity_order[a.severity]): a stable sort
_sort_alerts(alerts) == SortedStable(alerts)

\* the values of one attribute over the data points
AttrValues(data, attr) == [i \in 1..Len(data) |-> data[i][attr]]

Min(a, b) == IF a <= b THEN a ELSE b

calculate(data, cfg) ==
    LET report_date == Last(data).date
        results == [k \in 1..Len(METRIC_CONFIGS) |->
                      _calculate_metric(METRIC_CONFIGS[k][1],
                                        AttrValues(data, METRIC_CONFIGS[k][1]),
                                        METRIC_CONFIGS[k][2], report_date,
                                        cfg.alert_thresholds)]
        metrics == [k \in 1..Len(results) |-> results[k].metric]
        HasAlert(r) == r.alert # <<>>
        raised == SelectSeq(results, HasAlert)
        alerts == _sort_alerts([k \in 1..Len(raised) |-> raised[k].alert[1]])
        IsAlert(a) == a.severity = "alert"
        IsWarning(a) == a.severity = "warning"
    IN  [report_date |-> report_date,
         lookback_days |-> Min(cfg.lookback_days, Len(data)),
         metrics |-> metrics,
         alerts |-> alerts,
         total_alerts |-> Len(alerts),
         alert_count |-> Len(SelectSeq(alerts, IsAlert)),
         warning_count |-> Len(SelectSeq(alerts, IsWarning))]

(***************************************************************************)
(* The time series handed to the velocity calculator                       *)
(***************************************************************************)
\* longest series of periods
MaxSeries == 4

\* the z-score sums a category takes in a period
ZSumValues == {0, 10}

\* A data point as the score builder leaves it: the composite is derived and
\* the smoothed scores are still None (the empty sequence; a score that is set
\* is the one-element sequence of its value).
DataPoint(d, fe, fr, op) ==
    [date |-> d,
     fears_zscore_sum |-> fe,
     frustrations_zscore_sum |-> fr,
     optimism_zscore_sum |-> op,
     negativity_score |-> fe + fr,
     positivity_score |-> op,
     composite_score |-> op - (fe + fr),
     ema_score |-> <<>>,
     ema_negativity |-> <<>>,
     ema_positivity |-> <<>>]

CategoryTriples == ZSumValues \X ZSumValues \X ZSumValues

SeriesOfLen(n) ==
    { [i \in 1..n |-> DataPoint(i, t[i][1], t[i][2], t[i][3])] :
        t \in [1..n -> CategoryTriples] }

\* the configured thresholds of a run: the defaults, or a wider set
\* (notable 0.5, warning 2.0, alert 15.0)
ThresholdConfigs == {DefaultThresholds, AlertThresholds(50, 200, 1500, 200)}

VelocityConfigs ==
    { [alert_thresholds |-> t, lookback_days |-> DefaultLookbackDays] :
        t \in ThresholdConfigs }

InitVelocity ==
    /\ pc = "timeseries"
    /\ IdleOthers
    /\ config \in VelocityConfigs
    /\ \E n \in 1..MaxSeries : data_points \in SeriesOfLen(n)
    /\ IdleVelocity
    /\ IdleSeverity /\ IdleRoc /\ IdleScore /\ IdleReport

\* The local hist_velocities of the _calculate_metric call for metric k (empty
\* when the call returns early).
HistOfMetric(data, k) ==
    LET values == AttrValues(data, METRIC_CONFIGS[k][1])
    IN  IF Len(values) < 2 THEN <<>> ELSE HistVelocities(Velocities(values))

VelocityCalculate ==
    /\ pc = "timeseries"
    /\ velocity' = <<calculate(data_points, config)>>
    /\ hist_sample' = [k \in 1..Len(METRIC_CONFIGS) |-> HistOfMetric(data_points, k)]
    /\ pc' = "velocity"
    /\ UNCHANGED <<config, data_points, severityVars, rocVars, scoreVars, reportVars, otherVars>>

NextVelocity == VelocityCalculate

SpecVelocity == InitVelocity /\ [][NextVelocity]_vars

(***************************************************************************)
(* Properties of the velocity report                                       *)
(***************************************************************************)
VelocityDone == pc = "velocity"

Report == velocity[1]

SeriesOf(attr) == AttrValues(data_points, attr)

\* The example input: fears z-sums [0, 0, 10], frustrations and optimism [0, 0, 0].
ExampleInput ==
    /\ SeriesOf("fears_zscore_sum") = <<0, 0, 10>>
    /\ SeriesOf("frustrations_zscore_sum") = <<0, 0, 0>>
    /\ SeriesOf("optimism_zscore_sum") = <<0, 0, 0>>

ExampleFearsMetric ==
    LET m == Report.metrics[2]
    IN  /\ m.metric_name = "fears_zscore_sum"
        /\ m.velocity = 10
        /\ m.historical_mean = RI(0)
        /\ m.historical_std = SurdOfInt(1)
        /\ m.velocity_zscore = SurdOfInt(10)
        /\ m.alert_level = "alert"

\* C4 as stated: on the example input the fears metric has velocity 10,
\* historical mean 0, historical std 1, z-score 10 and severity alert, and the
\* alert list holds exactly one alert, for the fears metric, rising.
C4_Original ==
    (VelocityDone /\ ExampleInput /\ config.alert_thresholds = DefaultThresholds) =>
        /\ ExampleFearsMetric
        /\ Len(Report.alerts) = 1
        /\ Report.alerts[1].metric = "fears_zscore_sum"
        /\ Report.alerts[1].direction = "rising"

\* C4 amended: the fears metric is as stated, and the alert list holds exactly
\* two alerts: one for the composite score (which fell by 10: z = -10,
\* falling) followed by the one for the fears metric (rising).
C4_ExampleAlerts ==
    (VelocityDone /\ ExampleInput /\ config.alert_thresholds = DefaultThresholds) =>
        /\ ExampleFearsMetric
        /\ Len(Report.alerts) = 2
        /\ Report.alerts[1].metric = "composite_score"
        /\ Report.alerts[1].direction = "falling"
        /\ Report.alerts[1].z_score = SurdOfInt(-10)
        /\ Report.alerts[2].metric = "fears_zscore_sum"
        /\ Report.alerts[2].category = "fears"
        /\ Report.alerts[2].direction = "rising"
        /\ Report.alerts[2].severity = "alert"
        /\ Report.total_alerts = 2

C4_Witness ==
    VelocityDone /\ ExampleInput /\ config.alert_thresholds = DefaultThresholds

\* The z-score the claim C5 describes, from the velocities before the last one.
LeaveLastOutZ(velocities) ==
    LET earlier == Front(velocities)
        m == mean(earlier)
        sd == IF Len(earlier) >= 2 THEN stdev(earlier) ELSE SurdOfInt(1)
    IN  IF sd.s > 0 THEN RDivSurd(RSub(RI(Last(velocities)), m), sd) ELSE SurdZero

MetricIndices == 1..Len(METRIC_CONFIGS)

\* C5 as stated: for every metric series with at least 2 points the most recent
\* velocity is excluded from the historical sample that gives m and s.
C5_Original ==
    VelocityDone =>
        \A k \in MetricIndices :
            Len(data_points) >= 2 =>
                hist_sample[k] = Front(Velocities(SeriesOf(METRIC_CONFIGS[k][1])))

\* C5 amended: with at least 3 points the z-score of the most recent velocity is
\* (current - m) / s, m and s the mean and sample standard deviation of the
\* earlier velocities only (s = 1 with a single earlier velocity, and the
\* z-score is 0 when s = 0); with exactly 2 points the only velocity is its own
\* history: m is that velocity, s = 1 and the z-score is 0.
C5_LeaveLastOut ==
    VelocityDone =>
        \A k \in MetricIndices :
            LET values == SeriesOf(METRIC_CONFIGS[k][1])
                m == Report.metrics[k]
            IN  /\ Len(values) >= 3 =>
                    /\ hist_sample[k] = Front(Velocities(values))
                    /\ m.historical_mean = mean(Front(Velocities(values)))
                    /\ m.velocity_zscore = LeaveLastOutZ(Velocities(values))
                    /\ Len(values) = 3 => m.historical_std = SurdOfInt(1)
                    /\ Len(values) > 3 =>
                          m.historical_std = stdev(Front(Velocities(values)))
                /\ Len(values) = 2 =>
                    /\ hist_sample[k] = Velocities(values)
                    /\ m.historical_mean = RI(m.velocity)
                    /\ m.historical_std = SurdOfInt(1)
                    /\ m.velocity_zscore = SurdZero

\* a series of 4 points whose current velocity differs from the earlier mean,
\* the earlier velocities differing from each other
C5_Witness ==
    /\ VelocityDone
    /\ Len(data_points) = 4
    /\ Report.metrics[2].historical_std.s > 0
    /\ Report.metrics[2].historical_std # SurdOfInt(1)
    /\ Report.metrics[2].velocity_zscore.s # 0

FlaggedMetrics == {k \in MetricIndices : Report.metrics[k].alert_level \in {"warning", "alert"}}

AlertIndices == 1..Len(Report.alerts)

\* C6: the alerts correspond one to one to the metrics whose alert_level is
\* warning or alert, with the same metric name and severity; no alert is
\* notable or none; total_alerts = len(alerts) = alert_count + warning_count.
C6_AlertsMatchMetrics ==
    VelocityDone =>
        /\ \A k \in FlaggedMetrics :
              Cardinality({i \in AlertIndices :
                  Report.alerts[i].metric = Report.metrics[k].metric_name}) = 1
        /\ \A i \in AlertIndices :
              /\ Report.alerts[i].severity \in {"warning", "alert"}
              /\ \E k \in FlaggedMetrics :
                    /\ Report.metrics[k].metric_name = Report.alerts[i].metric
                    /\ Report.metrics[k].alert_level = Report.alerts[i].severity
        /\ Len(Report.alerts) = Cardinality(FlaggedMetrics)
        /\ Report.total_alerts = Len(Report.alerts)
        /\ Report.total_alerts = Report.alert_count + Report.warning_count

\* a report with an alert, a warning and a metric that raises no alert
C6_Witness ==
    /\ VelocityDone
    /\ \E i, j \in AlertIndices :
          Report.alerts[i].severity = "alert" /\ Report.alerts[j].severity = "warning"
    /\ \E k \in MetricIndices : k \notin FlaggedMetrics

MetricPosition(name) == CHOOSE k \in MetricIndices : METRIC_CONFIGS[k][1] = name

\* C8: the alerts are ordered by severity (alert, then warning, then notable),
\* and alerts of equal severity keep the order composite, fears, frustrations,
\* optimism.
C8_AlertsSorted ==
    VelocityDone =>
        \A i, j \in AlertIndices :
            i < j =>
                \/ severity_order(Report.alerts[i].severity)
                      < severity_order(Report.alerts[j].severity)
                \/ /\ Report.alerts[i].severity = Report.alerts[j].severity
                   /\ MetricPosition(Report.alerts[i].metric)
                        < MetricPosition(Report.alerts[j].metric)

\* the composite metric raises a warning and a later metric an alert, so the
\* sort moves the later one to the front; two more alerts tie
C8_Witness ==
    /\ VelocityDone
    /\ Report.metrics[1].alert_level = "warning"
    /\ \E k \in 2..4 : Report.metrics[k].alert_level = "alert"
    /\ Report.alerts[1].metric # "composite_score"

(***************************************************************************)
(* get_alert_severity as a function of the thresholds and the z-score      *)
(***************************************************************************)
\* z-scores run over the halves from -MaxZHalves/2 to MaxZHalves/2
MaxZHalves == 5

ZScoreInputs == { SurdOfRat(R(k, 2)) : k \in (-MaxZHalves)..MaxZHalves }

\* threshold values, in hundredths
ThresholdValues == {-100, 0, 100, 150, 200}

\* the configurations with notable <= warning <= alert
OrderedTriples ==
    { t \in ThresholdValues \X ThresholdValues \X ThresholdValues :
        t[1] <= t[2] /\ t[2] <= t[3] }

OrderedThresholds ==
    { AlertThresholds(t[1], t[2], t[3], DefaultSignificantZ) : t \in OrderedTriples }

InitSeverity ==
    /\ pc = "severity_call"
    /\ IdleOthers
    /\ \E t \in OrderedThresholds :
          config = [alert_thresholds |-> t, lookback_days |-> DefaultLookbackDays]
    /\ z_scores \in ZScoreInputs \X ZScoreInputs
    /\ severities = <<>>
    /\ IdleSeries
    /\ IdleVelocity /\ IdleRoc /\ IdleScore /\ IdleReport

ClassifySeverity ==
    /\ pc = "severity_call"
    /\ severities' = <<get_alert_severity(z_scores[1], config.alert_thresholds),
                       get_alert_severity(z_scores[2], config.alert_thresholds)>>
    /\ pc' = "severity_return"
    /\ UNCHANGED <<config, data_points, velocityVars, z_scores, rocVars, scoreVars, reportVars, otherVars>>

NextSeverity == ClassifySeverity

SpecSeverity == InitSeverity /\ [][NextSeverity]_vars

SeverityRank(sev) ==
    CASE sev = "none" -> 0
      [] sev = "notable" -> 1
      [] sev = "warning" -> 2
      [] sev = "alert" -> 3

\* |z1| <= |z2|, on the squares
AbsLe(z1, z2) == RLe(z1.q, z2.q)

\* C7: for thresholds notable <= warning <= alert and z-scores with
\* |z1| <= |z2|, the severity of z1 is not more severe than that of z2.
C7_SeverityMonotonic ==
    (pc = "severity_return" /\ AbsLe(z_scores[1], z_scores[2])) =>
        SeverityRank(severities[1]) <= SeverityRank(severities[2])

\* a positive z-score that is a warning and a negative one, larger in absolute
\* value, that is an alert
C7_Witness ==
    /\ pc = "severity_return"
    /\ AbsLe(z_scores[1], z_scores[2])
    /\ z_scores[1].s = 1 /\ z_scores[2].s = -1
    /\ severities = <<"warning", "alert">>

(***************************************************************************)
(* momentum.MomentumCalculator._rate_of_change                             *)
(***************************************************************************)
\* values[-lookback]: the 0-based position Python reads, or -1 when it is out
\* of range (IndexError)
NegativeIndex(values, lookback) ==
    LET n == Len(values)
        k == IF lookback = 0 THEN 0 ELSE n - lookback
    IN  IF 0 <= k /\ k < n THEN k ELSE -1

\* the percentage with the sign of current when past is 0
RocValue_signed_hundred(current, past) ==
    IF past = 0
    THEN RI(100 * Sign(current))
    ELSE RMul(R(current - past, Abs(past)), RI(100))

\* The percentage once past is read.
RocValue(current, past) ==
    IF past = 0
    THEN (IF current = 0 THEN RI(0) ELSE RI(100))
    ELSE RMul(R(current - past, Abs(past)), RI(100))

RECURSIVE _rate_of_change_shrink_by_one(_, _, _)
_rate_of_change_shrink_by_one(current, values, lookback) ==
    IF Len(values) < lookback
    THEN LET r == _rate_of_change_shrink_by_one(current, values, lookback - 1)
         IN  [r EXCEPT !.calls = @ + 1]
    ELSE LET k == NegativeIndex(values, lookback)
         IN  IF k = -1
             THEN [raised |-> "IndexError", value |-> RI(0), calls |-> 0, index |-> k]
             ELSE [raised |-> "", value |-> RocValue(current, values[k + 1]),
                   calls |-> 0, index |-> k]

\* The result records what the call raised (if anything), the value returned,
\* the number of recursive calls made and the position of values read.
RECURSIVE _rate_of_change(_, _, _)
_rate_of_change(current, values, lookback) ==
    IF Len(values) < lookback
    THEN LET r == _rate_of_change(current, values, Len(values))
         IN  [r EXCEPT !.calls = @ + 1]
    ELSE LET k == NegativeIndex(values, lookback)
         IN  IF k = -1
             THEN [raised |-> "IndexError", value |-> RI(0), calls |-> 0, index |-> k]
             ELSE [raised |-> "", value |-> RocValue(current, values[k + 1]),
                   calls |-> 0, index |-> k]

\* longest value series and largest lookback handed to _rate_of_change
MaxRocLen == 3
MaxLookback == 5

\* the z-score sums of the series
RocValues == {-2, 0, 1, 4}

RocSeries == UNION { [1..n -> RocValues] : n \in 1..MaxRocLen }

InitRoc ==
    /\ pc = "roc_call"
    /\ IdleOthers
    /\ config = <<>>
    /\ \E values \in RocSeries, lookback \in 1..MaxLookback :
          roc_args = [current |-> Last(values), values |-> values, lookback |-> lookback]
    /\ roc_result = <<>>
    /\ IdleSeries /\ IdleVelocity /\ IdleSeverity /\ IdleScore /\ IdleReport

RateOfChange ==
    /\ pc = "roc_call"
    /\ roc_result' = <<_rate_of_change(roc_args.current, roc_args.values, roc_args.lookback)>>
    /\ pc' = "roc_return"
    /\ UNCHANGED <<config, data_points, velocityVars, severityVars, roc_args, scoreVars, reportVars, otherVars>>

NextRoc == RateOfChange

SpecRoc == InitRoc /\ [][NextRoc]_vars

\* C9: for a non-empty series and a lookback L >= 1 the call returns a number
\* without raising or indexing out of range, after at most one recursive call;
\* when L exceeds the series length the result is the rate of change against
\* the first element of the series (the one for L = len(series)).
C9_RocDegrades ==
    pc = "roc_return" =>
        LET r == roc_result[1]
            values == roc_args.values
            L == roc_args.lookback
        IN  /\ r.raised = ""
            /\ r.index \in 0..(Len(values) - 1)
            /\ r.calls <= 1
            /\ L > Len(values) =>
                 /\ r.index = 0
                 /\ r.calls = 1
                 /\ r.value = RocValue(roc_args.current, values[1])
            /\ L <= Len(values) =>
                 /\ r.calls = 0
                 /\ r.value = RocValue(roc_args.current, values[Len(values) - L + 1])

\* a lookback two or more beyond the length of a series whose first element is
\* neither zero nor the current value
C9_Witness ==
    /\ pc = "roc_return"
    /\ roc_args.lookback >= Len(roc_args.values) + 2
    /\ Len(roc_args.values) >= 2
    /\ roc_args.values[1] # 0
    /\ roc_result[1].value # RI(0)
    /\ roc_result[1].calls = 1

(***************************************************************************)
(* timeseries.TimeSeriesBuilder._apply_ema                                 *)
(***************************************************************************)
DefaultSpan == 7
DefaultMinPeriods == 3

alpha_one_over_span(span) == R(1, span + 1)

\* alpha = 2 / (span + 1)
EmaAlpha(span) == R(2, span + 1)

\* The smoothed value of attribute raw_attr the loop leaves at (1-based)
\* position i: None, the mean of the first min_periods raw values, or the
\* recurrence on the previous smoothed value.
RECURSIVE EmaAt(_, _, _, _, _)
EmaAt(data, raw_attr, i, span, min_periods) ==
    IF i - 1 < min_periods - 1
    THEN <<>>
    ELSE IF i - 1 = min_periods - 1
    THEN <<mean(AttrValues(SubSeq(data, 1, i), raw_attr))>>
    ELSE LET prev == EmaAt(data, raw_attr, i - 1, span, min_periods)
             alpha == EmaAlpha(span)
         IN  IF prev # <<>>
             THEN <<RAdd(RMul(alpha, RI(data[i][raw_attr])),
                         RMul(RSub(RI(1), alpha), prev[1]))>>
             ELSE <<>>

_apply_ema(data, ema_config) ==
    LET span == ema_config.span
        min_periods == ema_config.min_periods
    IN  [i \in 1..Len(data) |->
            [data[i] EXCEPT
                !.ema_score = EmaAt(data, "composite_score", i, span, min_periods),
                !.ema_negativity = EmaAt(data, "negativity_score", i, span, min_periods),
                !.ema_positivity = EmaAt(data, "positivity_score", i, span, min_periods)]]

\* longest series smoothed and largest min_periods configured
MaxEmaSeries == 4
MaxMinPeriods == 3

EmaSpans == {1, 2, DefaultSpan}

EmaConfigs ==
    { [ema |-> [span |-> sp, min_periods |-> mp]] :
        sp \in EmaSpans, mp \in 1..MaxMinPeriods }

\* (fears, frustrations, optimism) z-score sums of the smoothed series
EmaTriples == { <<0, 0, 0>>, <<10, 0, 0>>, <<0, 0, 10>> }

EmaSeriesOfLen(n) ==
    { [i \in 1..n |-> DataPoint(i, t[i][1], t[i][2], t[i][3])] :
        t \in [1..n -> EmaTriples] }

InitEma ==
    /\ pc = "scores"
    /\ IdleOthers
    /\ config \in EmaConfigs
    /\ \E n \in 1..MaxEmaSeries : data_points \in EmaSeriesOfLen(n)
    /\ IdleVelocity /\ IdleSeverity /\ IdleRoc /\ IdleScore /\ IdleReport

ApplyEma ==
    /\ pc = "scores"
    /\ data_points' = _apply_ema(data_points, config.ema)
    /\ pc' = "ema"
    /\ UNCHANGED <<config, velocityVars, severityVars, rocVars, scoreVars, reportVars, otherVars>>

NextEma == ApplyEma

SpecEma == InitEma /\ [][NextEma]_vars

\* the smoothed fields with the raw score each one smooths
EmaFields ==
    { <<"ema_score", "composite_score">>,
      <<"ema_negativity", "negativity_score">>,
      <<"ema_positivity", "positivity_score">> }

\* w * raw + (1 - w) * prev
Combination(w, raw, prev) == RAdd(RMul(w, RI(raw)), RMul(RSub(RI(1), w), prev))

\* null before position min_periods, the mean of the first min_periods raw
\* values at it, the recurrence with alpha = 2 / (span + 1) after it
EmaShape(f) ==
    LET mp == config.ema.min_periods
        a == R(2, config.ema.span + 1)
    IN  \A i \in 1..Len(data_points) :
            LET ema == data_points[i][f[1]]
            IN  /\ i < mp => ema = <<>>
                /\ i = mp =>
                     ema = <<R(SumSeq([j \in 1..mp |-> data_points[j][f[2]]]), mp)>>
                /\ i > mp =>
                     /\ data_points[i - 1][f[1]] # <<>>
                     /\ ema = <<Combination(a, data_points[i][f[2]],
                                            data_points[i - 1][f[1]][1])>>

\* both weights of the recurrence lie strictly between 0 and 1
StrictWeights ==
    LET a == R(2, config.ema.span + 1)
    IN  RLt(RI(0), a) /\ RLt(a, RI(1))

\* a smoothed value after position min_periods lies strictly between the
\* previous smoothed value and the raw value whenever the two differ
StrictlyBetween(f) ==
    \A i \in 1..Len(data_points) :
        i > config.ema.min_periods =>
            LET ema == data_points[i][f[1]][1]
                raw == RI(data_points[i][f[2]])
                prev == data_points[i - 1][f[1]][1]
            IN  /\ RLt(prev, raw) => RLt(prev, ema) /\ RLt(ema, raw)
                /\ RLt(raw, prev) => RLt(raw, ema) /\ RLt(ema, prev)

\* C3 as stated: the shape above, the recurrence being a strict convex
\* combination for every span >= 1 once a later index exists.
C3_Original ==
    pc = "ema" =>
        \A f \in EmaFields :
            /\ EmaShape(f)
            /\ Len(data_points) > config.ema.min_periods =>
                 StrictWeights /\ StrictlyBetween(f)

\* C3: each of ema_score, ema_negativity and ema_positivity is null at every
\* index < min_periods-1, is the mean of the raw values 0..min_periods-1 at
\* index min_periods-1, and at every later index is
\* alpha*raw[i] + (1-alpha)*ema[i-1] with alpha = 2/(span+1); for span >= 2
\* this is a strict convex combination, for span = 1 alpha is 1 and the
\* smoothed value is the raw value itself.
C3_EmaRecurrence ==
    pc = "ema" =>
        \A f \in EmaFields :
            /\ EmaShape(f)
            /\ config.ema.span >= 2 => StrictWeights /\ StrictlyBetween(f)
            /\ config.ema.span = 1 =>
                 \A i \in 1..Len(data_points) :
                     i > config.ema.min_periods =>
                         data_points[i][f[1]] = <<RI(data_points[i][f[2]])>>

\* a series with null, seeded and recurrence positions whose last raw value
\* differs from the previous smoothed value, under the default span
C3_Witness ==
    /\ pc = "ema"
    /\ config.ema.span = DefaultSpan
    /\ config.ema.min_periods = 2
    /\ Len(data_points) = 4
    /\ data_points[1].ema_score = <<>>
    /\ data_points[3].ema_score # <<>>
    /\ data_points[4].ema_score # <<RI(data_points[4].composite_score)>>
    /\ data_points[4].ema_score # data_points[3].ema_score

\* span = 1 with an index past the seed whose raw value differs from the
\* previous smoothed value
C3_SpanOneWitness ==
    /\ pc = "ema"
    /\ config.ema.span = 1
    /\ Len(data_points) > config.ema.min_periods
    /\ data_points[Len(data_points)].ema_score # data_points[Len(data_points) - 1].ema_score

(***************************************************************************)
(* The per-period scores: calculator._compute_engagement_stats,            *)
(* timeseries._calculate_daily_score, weekly._weekly_report_to_data_point  *)
(***************************************************************************)
\* EngagementConfig.z_floor, in hundredths
DefaultZFloor == -200

Categories == <<"fears", "frustrations", "optimism">>

\* The float a + b / std, std the engagement standard deviation of the run.
Lin(a, b) == [a |-> a, b |-> b]
LinZero == Lin(RI(0), RI(0))
LinAdd(x, y) == Lin(RAdd(x.a, y.a), RAdd(x.b, y.b))
LinSub(x, y) == Lin(RSub(x.a, y.a), RSub(x.b, y.b))

RECURSIVE LinSum(_)
LinSum(s) == IF s = <<>> THEN LinZero ELSE LinAdd(s[1], LinSum(Tail(s)))

RECURSIVE Concat(_)
Concat(ss) == IF ss = <<>> THEN <<>> ELSE ss[1] \o Concat(Tail(ss))

\* all_scores: the comment_score of every quote of every day, in loop order
AllScores(data) ==
    Concat([i \in 1..Len(data) |->
        Concat([c \in 1..Len(Categories) |->
            AttrValues(data[i].all_quotes[Categories[c]], "comment_score")])])

_compute_engagement_stats_unit(data) == [mean |-> RI(0), std |-> SurdOfInt(1)]

_compute_engagement_stats(data) ==
    LET all_scores == AllScores(data)
    IN  IF Len(all_scores) < 2
        THEN [mean |-> RI(0), std |-> SurdOfInt(1)]
        ELSE [mean |-> mean(all_scores), std |-> stdev(all_scores)]

_calculate_engagement_z_unclamped(engagement, stats, z_floor) ==
    IF stats.std.s > 0
    THEN Lin(RI(0), RSub(RI(engagement), stats.mean))
    ELSE LinZero

\* max(z, z_floor) with z = (engagement - mean) / std, or 0 when std is 0
_calculate_engagement_z(engagement, stats, z_floor) ==
    LET d == RSub(RI(engagement), stats.mean)
        z == IF stats.std.s > 0 THEN RDivSurd(d, stats.std) ELSE SurdZero
    IN  IF SurdGe(z, z_floor)
        THEN (IF stats.std.s > 0 THEN Lin(RI(0), d) ELSE LinZero)
        ELSE Lin(z_floor, RI(0))

get_intensity_z(intensity, cfg) == cfg.intensity_z_scores[intensity]

\* zscore_sum of one category of one day
CategoryScore(quotes, stats, cfg) ==
    LinSum([j \in 1..Len(quotes) |->
        LinAdd(_calculate_engagement_z(quotes[j].comment_score, stats, cfg.engagement.z_floor),
               Lin(get_intensity_z(quotes[j].intensity, cfg), RI(0)))])

Negativity_fears_only(fears, frustrations) == fears

Negativity(fears, frustrations) == LinAdd(fears, frustrations)

\* the fields of a DailySentimentScore given its sums and counts
SentimentScore(d, quotes, fe, fr, op, negativity, positivity, composite) ==
    LET total_quotes == Len(quotes.fears) + Len(quotes.frustrations) + Len(quotes.optimism)
        total_engagement ==
            SumSeq(AttrValues(quotes.fears \o quotes.frustrations \o quotes.optimism,
                              "comment_score"))
    IN  [date |-> d,
         fears_count |-> Len(quotes.fears),
         frustrations_count |-> Len(quotes.frustrations),
         optimism_count |-> Len(quotes.optimism),
         total_quotes |-> total_quotes,
         fears_zscore_sum |-> fe,
         frustrations_zscore_sum |-> fr,
         optimism_zscore_sum |-> op,
         negativity_score |-> negativity,
         positivity_score |-> positivity,
         composite_score |-> composite,
         ema_score |-> <<>>,
         ema_negativity |-> <<>>,
         ema_positivity |-> <<>>,
         total_engagement |-> total_engagement,
         avg_engagement |->
            IF total_quotes > 0 THEN R(total_engagement, total_quotes) ELSE RI(0)]

_calculate_daily_score(day_data, stats, cfg) ==
    LET quotes == day_data.all_quotes
        fe == CategoryScore(quotes.fears, stats, cfg)
        fr == CategoryScore(quotes.frustrations, stats, cfg)
        op == CategoryScore(quotes.optimism, stats, cfg)
        negativity == Negativity(fe, fr)
        positivity == op
        composite == LinSub(positivity, negativity)
    IN  SentimentScore(day_data.date_id, quotes, fe, fr, op, negativity, positivity, composite)

\* weekly: the sum of the intensity z-scores of the quotes, 0.0 for no quote
\* and for an unknown intensity label
_calculate_category_zscore(quotes, cfg) ==
    LinSum([j \in 1..Len(quotes) |->
        IF quotes[j].intensity \in DOMAIN cfg.intensity_z_scores
        THEN Lin(cfg.intensity_z_scores[quotes[j].intensity], RI(0))
        ELSE LinZero])

_weekly_report_to_data_point(report, cfg) ==
    LET quotes == report.all_quotes
        fears_zscore == _calculate_category_zscore(quotes.fears, cfg)
        frust_zscore == _calculate_category_zscore(quotes.frustrations, cfg)
        optim_zscore == _calculate_category_zscore(quotes.optimism, cfg)
        negativity_score == LinAdd(fears_zscore, frust_zscore)
        positivity_score == optim_zscore
        composite_score == LinSub(positivity_score, negativity_score)
    IN  SentimentScore(report.week_end, quotes, fears_zscore, frust_zscore, optim_zscore,
                       negativity_score, positivity_score, composite_score)

\* total_quotes of a report, as the weekly loader counts it
TotalQuotes(report) ==
    Len(report.all_quotes.fears) + Len(report.all_quotes.frustrations)
        + Len(report.all_quotes.optimism)

\* most periods loaded
MaxPeriods == 2

Quote(cs, int) == [comment_score |-> cs, intensity |-> int]

\* the quote lists a category of a period holds
QuoteLists ==
    { <<>>,
      <<Quote(6, "strong")>>,
      <<Quote(0, "mild"), Quote(0, "moderate")>> }

\* The report file of period d: named after the period, which is also its
\* date_id (daily) and its week_start and week_end (weekly).
ReportFileOf(name, date_id, week_start, week_end, fe, fr, op) ==
    [name |-> name, date_id |-> date_id, week_start |-> week_start, week_end |-> week_end,
     all_quotes |-> [fears |-> fe, frustrations |-> fr, optimism |-> op]]

PeriodReport(d, fe, fr, op) == ReportFileOf(d, d, d, d, fe, fr, op)

ReportsOfLen(n) ==
    { [i \in 1..n |-> PeriodReport(i, t[i][1], t[i][2], t[i][3])] :
        t \in [1..n -> QuoteLists \X QuoteLists \X QuoteLists] }

\* calibrated intensity z-scores (mild -0.75, moderate 0.25, strong 1.5) with
\* the default engagement floor or a floor of -1.0
ScoreConfigs ==
    { [intensity_z_scores |->
          [mild |-> Hundredths(-75), moderate |-> Hundredths(25), strong |-> Hundredths(150)],
       engagement |-> [z_floor |-> f]] :
        f \in {Hundredths(DefaultZFloor), Hundredths(-100)} }

InitScore ==
    /\ pc = "loaded"
    /\ IdleOthers
    /\ config \in ScoreConfigs
    /\ \E n \in 1..MaxPeriods : daily_data \in ReportsOfLen(n)
    /\ engagement_stats = <<>>
    /\ quote_z = <<>>
    /\ IdleSeries /\ IdleVelocity /\ IdleSeverity /\ IdleRoc /\ IdleReport

\* calculator.generate_report up to the data points of TimeSeriesBuilder.build
ScoreDays ==
    /\ pc = "loaded"
    /\ LET stats == _compute_engagement_stats(daily_data)
       IN  /\ engagement_stats' = stats
           /\ data_points' =
                [i \in 1..Len(daily_data) |-> _calculate_daily_score(daily_data[i], stats, config)]
           /\ quote_z' =
                [i \in 1..Len(daily_data) |->
                    [c \in 1..Len(Categories) |->
                        LET quotes == daily_data[i].all_quotes[Categories[c]]
                        IN  [j \in 1..Len(quotes) |->
                                _calculate_engagement_z(quotes[j].comment_score, stats,
                                                        config.engagement.z_floor)]]]
    /\ pc' = "daily_scores"
    /\ UNCHANGED <<config, daily_data, velocityVars, severityVars, rocVars, reportVars, otherVars>>

\* the data points of _build_weekly_timeseries; the weekly loader has left no
\* report without quotes in the list
ScoreWeeks ==
    /\ pc = "loaded"
    /\ \A i \in 1..Len(daily_data) : TotalQuotes(daily_data[i]) > 0
    /\ data_points' =
         [i \in 1..Len(daily_data) |-> _weekly_report_to_data_point(daily_data[i], config)]
    /\ pc' = "weekly_scores"
    /\ UNCHANGED <<config, daily_data, engagement_stats, quote_z,
                   velocityVars, severityVars, rocVars, reportVars, otherVars>>

NextScore == ScoreDays \/ ScoreWeeks

SpecScore == InitScore /\ [][NextScore]_vars

ScoresBuilt == pc \in {"daily_scores", "weekly_scores"}

\* C1: in every data point of the daily builder and of the weekly calculator
\* negativity_score = fears_zscore_sum + frustrations_zscore_sum,
\* positivity_score = optimism_zscore_sum and
\* composite_score = positivity_score - negativity_score.
C1_DerivedScores ==
    ScoresBuilt =>
        \A i \in 1..Len(data_points) :
            LET dp == data_points[i]
            IN  /\ dp.negativity_score.a = RAdd(dp.fears_zscore_sum.a, dp.frustrations_zscore_sum.a)
                /\ dp.negativity_score.b = RAdd(dp.fears_zscore_sum.b, dp.frustrations_zscore_sum.b)
                /\ dp.positivity_score = dp.optimism_zscore_sum
                /\ dp.composite_score.a = RSub(dp.positivity_score.a, dp.negativity_score.a)
                /\ dp.composite_score.b = RSub(dp.positivity_score.b, dp.negativity_score.b)

\* a daily series of two days where all three categories score and the
\* frustrations move the negativity away from the fears
C1_Witness ==
    /\ pc = "daily_scores"
    /\ Len(data_points) = 2
    /\ engagement_stats.std.s > 0
    /\ \E i \in 1..Len(data_points) :
          /\ data_points[i].fears_count > 0
          /\ data_points[i].optimism_count > 0
          /\ data_points[i].frustrations_zscore_sum # LinZero
          /\ data_points[i].composite_score # LinZero
          /\ data_points[i].negativity_score # data_points[i].fears_zscore_sum

\* the comment_score values of one period
PeriodScores(i) == AllScores(<<daily_data[i]>>)

AllSame(s) == \A j, k \in 1..Len(s) : s[j] = s[k]

\* the engagement z-scores of period i are all 0
PeriodZZero(i) ==
    \A c \in 1..Len(Categories) :
        \A j \in 1..Len(quote_z[i][c]) : quote_z[i][c][j] = LinZero

DefaultMinWeeks == 3

\* most files in the data directory and largest configured minimum
MaxFiles == 4
MaxMinDays == 4

InsufficientData_off_by_one(found, required) == found + 1 < required

\* len(daily_data) < min_days, len(weekly_reports) < min_weeks
InsufficientData(found, required) == found < required

\* sorted(..., key = field): insert a after the entries whose key is <= its own
RECURSIVE InsertByField(_, _, _)
InsertByField(s, a, field) ==
    IF s = <<>> THEN <<a>>
    ELSE IF s[1][field] <= a[field]
         THEN <<s[1]>> \o InsertByField(Tail(s), a, field)
         ELSE <<a>> \o s

RECURSIVE SortedByField(_, _)
SortedByField(s, field) ==
    IF s = <<>> THEN <<>>
    ELSE InsertByField(SortedByField(Front(s), field), Last(s), field)

\* The weekly loader reads the week files (named 202x-Wnn) in name order,
\* skips the reports without quotes and sorts what is left by week_start.
_load_weekly_reports(dir) ==
    SortedByField(SelectSeq(SortedByField(dir, "name"), LAMBDA r : TotalQuotes(r) > 0),
                  "week_start")

\* The daily loader reads the files in name order.
_load_daily_reports(dir) == SortedByField(dir, "name")

\* the minimum generate_report compares the loaded periods with
MinimumRequired(calc, cfg) ==
    IF calc.kind = "daily" THEN cfg.pipeline.min_days_required ELSE calc.min_weeks

\* ValueError(f"Need at least {min} days of data, found {len}")
InsufficientDataError(required, found) ==
    [kind |-> "error", type |-> "ValueError", message |-> <<required, found>>]

\* statistics.mean of no data point
StatisticsError == [kind |-> "error", type |-> "StatisticsError", message |-> <<>>]

\* the AnalyticsReport generate_report returns
AnalyticsReport(data, cfg) ==
    [kind |-> "report",
     data_range_start |-> data[1].date,
     data_range_end |-> Last(data).date,
     days_analyzed |-> Len(data),
     sentiment_timeseries |-> data,
     momentum |-> [report_date |-> Last(data).date, lookback_days |-> Min(7, Len(data))],
     velocity |-> [report_date |-> Last(data).date,
                   lookback_days |-> Min(cfg.velocity.lookback_days, Len(data))]]

\* a report file without quotes and one with quotes
ReportFile(d, quoted) ==
    IF quoted
    THEN PeriodReport(d, <<Quote(6, "strong")>>, <<>>, <<Quote(0, "mild"), Quote(0, "moderate")>>)
    ELSE PeriodReport(d, <<>>, <<>>, <<>>)

DataDirs ==
    UNION { { [i \in 1..n |-> ReportFile(i, q[i])] : q \in [1..n -> BOOLEAN] } : n \in 0..MaxFiles }

ReportConfigs ==
    { [intensity_z_scores |->
          [mild |-> Hundredths(-75), moderate |-> Hundredths(25), strong |-> Hundredths(150)],
       engagement |-> [z_floor |-> Hundredths(DefaultZFloor)],
       velocity |-> [lookback_days |-> DefaultLookbackDays],
       pipeline |-> [min_days_required |-> m]] : m \in 0..MaxMinDays }

\* the daily calculator, and the weekly one with the min_weeks it is called with
Calculators ==
    { [kind |-> "daily", min_weeks |-> 0] } \cup
    { [kind |-> "weekly", min_weeks |-> m] : m \in {DefaultMinWeeks, 1} }

InitReport ==
    /\ pc = "start"
    /\ IdleOthers
    /\ config \in ReportConfigs
    /\ calculator \in Calculators
    /\ files \in DataDirs
    /\ computed = {}
    /\ outcome = <<>>
    /\ IdleSeries /\ IdleVelocity /\ IdleSeverity /\ IdleRoc /\ IdleScore

LoadReports ==
    /\ pc = "start"
    /\ daily_data' =
         IF calculator.kind = "daily"
         THEN _load_daily_reports(files)
         ELSE _load_weekly_reports(files)
    /\ pc' = "loaded"
    /\ UNCHANGED <<config, data_points, velocityVars, severityVars, rocVars,
                   engagement_stats, quote_z, reportVars, otherVars>>

CheckMinimum ==
    /\ pc = "loaded"
    /\ LET required == MinimumRequired(calculator, config)
       IN  IF InsufficientData(Len(daily_data), required)
           THEN /\ outcome' = <<InsufficientDataError(required, Len(daily_data))>>
                /\ pc' = "raised"
           ELSE /\ outcome' = outcome
                /\ pc' = "checked"
    /\ UNCHANGED <<config, data_points, velocityVars, severityVars, rocVars, scoreVars,
                   calculator, files, computed, otherVars>>

\* the data points of the time series (statistics.mean raises on none); the
\* daily calculator computes the engagement statistics first
BuildTimeseries ==
    /\ pc = "checked"
    /\ engagement_stats' =
         IF calculator.kind = "daily" THEN _compute_engagement_stats(daily_data)
         ELSE engagement_stats
    /\ IF daily_data = <<>>
       THEN /\ outcome' = <<StatisticsError>>
            /\ pc' = "raised"
            /\ UNCHANGED <<data_points, computed, otherVars>>
       ELSE /\ data_points' =
                [i \in 1..Len(daily_data) |->
                    IF calculator.kind = "daily"
                    THEN _calculate_daily_score(daily_data[i],
                            _compute_engagement_stats(daily_data), config)
                    ELSE _weekly_report_to_data_point(daily_data[i], config)]
            /\ computed' = computed \cup {"timeseries"}
            /\ pc' = "timeseries"
            /\ outcome' = outcome
    /\ UNCHANGED <<config, velocityVars, severityVars, rocVars, daily_data, quote_z,
                   calculator, files, otherVars>>

CalculateMomentum ==
    /\ pc = "timeseries"
    /\ computed' = computed \cup {"momentum"}
    /\ pc' = "momentum"
    /\ UNCHANGED <<config, data_points, velocityVars, severityVars, rocVars, scoreVars,
                   calculator, files, outcome, otherVars>>

CalculateVelocity ==
    /\ pc = "momentum"
    /\ computed' = computed \cup {"velocity"}
    /\ pc' = "velocity"
    /\ UNCHANGED <<config, data_points, velocityVars, severityVars, rocVars, scoreVars,
                   calculator, files, outcome, otherVars>>

ReturnReport ==
    /\ pc = "velocity"
    /\ outcome' = <<AnalyticsReport(data_points, config)>>
    /\ pc' = "returned"
    /\ UNCHANGED <<config, data_points, velocityVars, severityVars, rocVars, scoreVars,
                   calculator, files, computed, otherVars>>

NextReport ==
    \/ LoadReports
    \/ CheckMinimum
    \/ BuildTimeseries
    \/ CalculateMomentum
    \/ CalculateVelocity
    \/ ReturnReport

SpecReport == InitReport /\ [][NextReport]_vars

MinimumChecked == pc \notin {"start", "loaded"}

\* the run raised the insufficient-data error for `required`, stating the
\* required and the found number of periods, with nothing computed
RaisedInsufficient(required) ==
    /\ pc = "raised"
    /\ outcome = <<[kind |-> "error", type |-> "ValueError",
                    message |-> <<required, Len(daily_data)>>]>>
    /\ computed = {}
    /\ data_points = <<>>

\* what is returned is a report with time series, momentum and velocity all
\* computed and populated, and nothing is returned by a run that raised
CompleteOrRaised ==
    /\ outcome # <<>> => pc \in {"raised", "returned"}
    /\ pc = "raised" => outcome # <<>> /\ outcome[1].kind = "error"
    /\ pc = "returned" =>
         /\ outcome # <<>> /\ outcome[1].kind = "report"
         /\ computed = {"timeseries", "momentum", "velocity"}
         /\ Len(outcome[1].sentiment_timeseries) = Len(daily_data)
         /\ Len(daily_data) >= 1
         /\ outcome[1].momentum.report_date = Last(daily_data).date_id
         /\ outcome[1].velocity.report_date = Last(daily_data).date_id

\* C2 as stated: the minimum is config.pipeline.min_days_required for both
\* calculators.
C2_Original ==
    /\ (MinimumChecked /\ Len(daily_data) < config.pipeline.min_days_required) =>
          RaisedInsufficient(config.pipeline.min_days_required)
    /\ CompleteOrRaised

\* C2: generate_report with fewer loaded periods than its minimum raises a
\* ValueError stating the required and the found number of periods before any
\* time series, momentum or velocity is computed, and returns no report; the
\* minimum is config.pipeline.min_days_required for the daily calculator and
\* the min_weeks argument (default 3) for the weekly calculator, which does
\* not read the configured minimum and counts only the weekly reports that
\* hold quotes.  In every other outcome a report with time series, momentum
\* and velocity all populated is returned, or the run raises.
C2_InsufficientData ==
    /\ (MinimumChecked /\ calculator.kind = "daily"
            /\ Len(daily_data) < config.pipeline.min_days_required) =>
          RaisedInsufficient(config.pipeline.min_days_required)
    /\ (MinimumChecked /\ calculator.kind = "weekly"
            /\ Len(daily_data) < calculator.min_weeks) =>
          RaisedInsufficient(calculator.min_weeks)
    /\ (calculator.kind = "weekly" /\ pc # "start") =>
          daily_data = SelectSeq(files, LAMBDA r : TotalQuotes(r) > 0)
    /\ CompleteOrRaised

\* the daily calculator raising on two days where three are required
C2_Witness ==
    /\ pc = "raised"
    /\ calculator.kind = "daily"
    /\ config.pipeline.min_days_required = 3
    /\ Len(daily_data) = 2
    /\ outcome[1].type = "ValueError"

\* the weekly calculator returning a report on three weeks where the
\* configuration requires four days
C2_WeeklyWitness ==
    /\ pc = "returned"
    /\ calculator.kind = "weekly"
    /\ calculator.min_weeks = DefaultMinWeeks
    /\ config.pipeline.min_days_required = 4
    /\ Len(daily_data) = 3

(***************************************************************************)
(* timeseries.TimeSeriesBuilder._calculate_engagement_z on any statistics  *)
(***************************************************************************)
\* largest engagement (comment_score) and largest mean, in halves
MaxEngagement == 4
MaxMeanHalves == 6

\* comment scores go below zero
EngagementValues == (-2)..MaxEngagement

\* the stats dict: any mean, and a std that is 0, 1/2, 1, sqrt(2) or sqrt(12)
EngagementStats ==
    { [mean |-> R(m, 2), std |-> Surd(1, v)] :
        m \in 0..MaxMeanHalves, v \in {RI(0), R(1, 4), RI(1), RI(2), RI(12)} }

\* config.engagement.z_floor: the default, -1.0, 0 and 0.5
ZFloors == { Hundredths(DefaultZFloor), Hundredths(-100), Hundredths(0), Hundredths(50) }

InitEngagement ==
    /\ pc = "engagement_call"
    /\ IdleTrend /\ IdleCalib /\ IdleScraper /\ IdleMetric /\ IdleMomentum
    /\ config \in { [engagement |-> [z_floor |-> f]] : f \in ZFloors }
    /\ \E e \in EngagementValues, st \in EngagementStats :
          ez_args = [engagement |-> e, stats |-> st]
    /\ ez_result = <<>>
    /\ IdleSeries /\ IdleVelocity /\ IdleSeverity /\ IdleRoc /\ IdleScore /\ IdleReport

CalculateEngagementZ ==
    /\ pc = "engagement_call"
    /\ ez_result' =
         <<_calculate_engagement_z(ez_args.engagement, ez_args.stats, config.engagement.z_floor)>>
    /\ pc' = "engagement_return"
    /\ UNCHANGED <<config, data_points, velocityVars, severityVars, rocVars, scoreVars,
                   reportVars, ez_args, trendVars, calibVars, scraperVars, metricVars, momentumVars>>

NextEngagement == CalculateEngagementZ

SpecEngagement == InitEngagement /\ [][NextEngagement]_vars

\* x.a + x.b / std >= t, for a std >= 0 given by its square
ValueGe(x, std, t) ==
    LET c == RSub(t, x.a)
        bb == RMul(x.b, x.b)
        ccq == RMul(RMul(c, c), std.q)
    IN  IF std.s = 0
        THEN x.b = RI(0) /\ RLe(c, RI(0))
        ELSE \/ RSign(x.b) >= 0 /\ RSign(c) <= 0
             \/ RSign(x.b) >= 0 /\ RSign(c) > 0 /\ RLe(ccq, bb)
             \/ RSign(x.b) < 0 /\ RSign(c) < 0 /\ RLe(bb, ccq)

\* C11: for every engagement value and every engagement mean and std
\* (std = 0 included) the z-score _calculate_engagement_z returns is
\* >= config.engagement.z_floor.
C11_FloorHolds ==
    pc = "engagement_return" =>
        ValueGe(ez_result[1], ez_args.stats.std, config.engagement.z_floor)

\* a quote below the mean whose raw z-score lies under the default floor
C11_Witness ==
    /\ pc = "engagement_return"
    /\ config.engagement.z_floor = Hundredths(DefaultZFloor)
    /\ ez_args.stats.std.s > 0
    /\ ez_args.engagement < 0
    /\ ez_result[1] = Lin(Hundredths(DefaultZFloor), RI(0))

(***************************************************************************)
(* The trend fit: timeseries._linear_regression and _classify_trend,       *)
(* weekly_calculator._calculate_trend                                      *)
(***************************************************************************)
\* TrendConfig.slope_stable_threshold, in hundredths
DefaultSlopeStableThreshold == 50

RECURSIVE RSum(_)
RSum(s) == IF s = <<>> THEN RI(0) ELSE RAdd(s[1], RSum(Tail(s)))

RSquare(r) == RMul(r, r)

RMax(a, b) == IF RLt(a, b) THEN b ELSE a

\* sum((x[i] - x_mean) * (values[i] - y_mean)), x = 0, 1, ..., n - 1
RegressionNumerator(values) ==
    LET n == Len(values)
    IN  RSum([i \in 1..n |->
            RMul(RSub(RI(i - 1), R(n - 1, 2)), RSub(RI(values[i]), mean(values)))])

\* sum((x[i] - x_mean) ** 2)
RegressionDenominator(n) == RSum([i \in 1..n |-> RSquare(RSub(RI(i - 1), R(n - 1, 2)))])

\* sum((y - y_mean) ** 2)
SsTot(values) ==
    RSum([i \in 1..Len(values) |-> RSquare(RSub(RI(values[i]), mean(values)))])

\* sum((values[i] - predictions[i]) ** 2) for the line through the means
SsRes(values, slope) ==
    LET n == Len(values)
    IN  RSum([i \in 1..n |->
            RSquare(RSub(RI(values[i]),
                         RAdd(mean(values), RMul(slope, RSub(RI(i - 1), R(n - 1, 2))))))])

\* daily: stable below the threshold, else by the sign of the slope
_classify_trend(slope, threshold) ==
    IF RLt(RAbs(slope), threshold) THEN "stable"
    ELSE IF RSign(slope) > 0 THEN "rising" ELSE "falling"

_linear_regression_flat_zero(values) ==
    [slope |-> RI(0), r_squared |-> RI(0)]

\* daily: (slope, r_squared)
_linear_regression(values) ==
    LET n == Len(values)
        denominator == RegressionDenominator(n)
        slope == RDiv(RegressionNumerator(values), denominator)
        ss_tot == SsTot(values)
    IN  IF n < 2 THEN [slope |-> RI(0), r_squared |-> RI(0)]
        ELSE IF denominator = RI(0) THEN [slope |-> RI(0), r_squared |-> RI(0)]
        ELSE IF ss_tot = RI(0) THEN [slope |-> slope, r_squared |-> RI(1)]
        ELSE [slope |-> slope,
              r_squared |-> RMax(RI(0), RSub(RI(1), RDiv(SsRes(values, slope), ss_tot)))]

\* weekly: (direction, slope, r_squared)
_calculate_trend(scores, slope_threshold) ==
    LET n == Len(scores)
        denominator == RegressionDenominator(n)
        slope == IF denominator # RI(0)
                 THEN RDiv(RegressionNumerator(scores), denominator)
                 ELSE RI(0)
        ss_tot == SsTot(scores)
        r_squared == IF ss_tot # RI(0)
                     THEN RSub(RI(1), RDiv(SsRes(scores, slope), ss_tot))
                     ELSE RI(0)
        direction == IF RLt(slope_threshold, slope) THEN "rising"
                     ELSE IF RLt(slope, RNeg(slope_threshold)) THEN "falling"
                     ELSE "stable"
    IN  IF n < 2
        THEN [direction |-> "stable", slope |-> RI(0), r_squared |-> RI(0)]
        ELSE [direction |-> direction, slope |-> slope, r_squared |-> RMax(RI(0), r_squared)]

\* longest series fitted
MaxTrendLen == 4

\* composite scores of the fitted series
TrendScores == {-1, 0, 1, 2}

\* slope_stable_threshold: 0, the default 0.5, and 1.0
SlopeThresholds == { Hundredths(0), Hundredths(DefaultSlopeStableThreshold), Hundredths(100) }

InitTrend ==
    /\ pc = "trend"
    /\ config = <<>>
    /\ \E n \in 1..MaxTrendLen :
         \E scores \in [1..n -> TrendScores], th \in SlopeThresholds :
            trend_args = [scores |-> scores, slope_stable_threshold |-> th]
    /\ trend_result = [daily |-> <<>>, weekly |-> <<>>]
    /\ IdleEngagement /\ IdleCalib /\ IdleScraper /\ IdleMetric /\ IdleMomentum
    /\ IdleSeries /\ IdleVelocity /\ IdleSeverity /\ IdleRoc /\ IdleScore /\ IdleReport

\* TimeSeriesBuilder.build, lines 44-48: the fit and its classification
FitDaily ==
    /\ pc = "trend"
    /\ trend_result.daily = <<>>
    /\ LET fit == _linear_regression(trend_args.scores)
       IN  trend_result' =
             [trend_result EXCEPT !.daily =
                <<[slope |-> fit.slope, r_squared |-> fit.r_squared,
                   trend |-> _classify_trend(fit.slope, trend_args.slope_stable_threshold)]>>]
    /\ pc' = IF trend_result.weekly # <<>> THEN "trend_done" ELSE "trend"
    /\ UNCHANGED <<config, data_points, velocityVars, severityVars, rocVars, scoreVars,
                   reportVars, engagementVars, trend_args, calibVars, scraperVars, metricVars, momentumVars>>

\* _build_weekly_timeseries: trend_direction, slope, r_squared
FitWeekly ==
    /\ pc = "trend"
    /\ trend_result.weekly = <<>>
    /\ LET fit == _calculate_trend(trend_args.scores, trend_args.slope_stable_threshold)
       IN  trend_result' =
             [trend_result EXCEPT !.weekly =
                <<[slope |-> fit.slope, r_squared |-> fit.r_squared, trend |-> fit.direction]>>]
    /\ pc' = IF trend_result.daily # <<>> THEN "trend_done" ELSE "trend"
    /\ UNCHANGED <<config, data_points, velocityVars, severityVars, rocVars, scoreVars,
                   reportVars, engagementVars, trend_args, calibVars, scraperVars, metricVars, momentumVars>>

NextTrend == FitDaily \/ FitWeekly

SpecTrend == InitTrend /\ [][NextTrend]_vars


StrictlyIncreasing(s) == \A i \in 1..(Len(s) - 1) : s[i] < s[i + 1]

Constant(s) == \A i \in 1..Len(s) : s[i] = s[1]

DailyFitted == trend_result # <<>> /\ trend_result.daily # <<>>
WeeklyFitted == trend_result # <<>> /\ trend_result.weekly # <<>>

\* C12: for a composite-score series of at least 2 points the daily
\* _linear_regression gives slope > 0 and 0 <= R² <= 1 when the series is
\* strictly increasing, and slope = 0 and R² = 1 when it is constant.
C12_RegressionShape ==
    (DailyFitted /\ Len(trend_args.scores) >= 2) =>
        LET fit == trend_result.daily[1]
        IN  /\ StrictlyIncreasing(trend_args.scores) =>
                 /\ RLt(RI(0), fit.slope)
                 /\ RLe(RI(0), fit.r_squared) /\ RLe(fit.r_squared, RI(1))
            /\ Constant(trend_args.scores) =>
                 fit.slope = RI(0) /\ fit.r_squared = RI(1)

\* a strictly increasing series that is not a line: R² strictly inside (0, 1)
C12_Witness ==
    /\ DailyFitted
    /\ Len(trend_args.scores) = 3
    /\ StrictlyIncreasing(trend_args.scores)
    /\ RLt(RI(0), trend_result.daily[1].r_squared)
    /\ RLt(trend_result.daily[1].r_squared, RI(1))

\* the rule of the claim for a fitted slope
TrendRule(fit, threshold) ==
    /\ fit.trend = "stable" <=> RLt(RAbs(fit.slope), threshold)
    /\ (~RLt(RAbs(fit.slope), threshold) /\ RSign(fit.slope) > 0) => fit.trend = "rising"
    /\ (~RLt(RAbs(fit.slope), threshold) /\ RSign(fit.slope) < 0) => fit.trend = "falling"

\* C19 as stated: overall_trend is stable exactly when |slope| < threshold,
\* and otherwise rising when slope > 0 and falling when slope < 0, in the daily
\* builder and in the weekly calculator alike.
C19_Original ==
    /\ DailyFitted => TrendRule(trend_result.daily[1], trend_args.slope_stable_threshold)
    /\ WeeklyFitted => TrendRule(trend_result.weekly[1], trend_args.slope_stable_threshold)

\* the daily builder alone follows the rule
C19_DailyRule ==
    DailyFitted => TrendRule(trend_result.daily[1], trend_args.slope_stable_threshold)

\* a slope equal to the default threshold: rising by the daily builder,
\* stable by the weekly calculator
C19_Witness ==
    /\ pc = "trend_done"
    /\ trend_args.slope_stable_threshold = Hundredths(DefaultSlopeStableThreshold)
    /\ trend_result.daily[1].slope = trend_args.slope_stable_threshold
    /\ trend_result.weekly[1].slope = trend_args.slope_stable_threshold
    /\ trend_result.daily[1].trend = "rising"
    /\ trend_result.weekly[1].trend = "stable"

\* C20 as stated: the weekly (slope, R²) equals the daily (slope, R²) for the
\* same series, and a flat series of at least 2 points gets slope 0 and
\* R² = 1 from both.
C20_Original ==
    pc = "trend_done" =>
        /\ trend_result.weekly[1].slope = trend_result.daily[1].slope
        /\ trend_result.weekly[1].r_squared = trend_result.daily[1].r_squared
        /\ (Constant(trend_args.scores) /\ Len(trend_args.scores) >= 2) =>
              /\ trend_result.daily[1].slope = RI(0)
              /\ trend_result.daily[1].r_squared = RI(1)
              /\ trend_result.weekly[1].slope = RI(0)
              /\ trend_result.weekly[1].r_squared = RI(1)

\* the two fits agree on every series that is not flat, and on the slope always
C20_AgreeUnlessFlat ==
    pc = "trend_done" =>
        /\ trend_result.weekly[1].slope = trend_result.daily[1].slope
        /\ (~Constant(trend_args.scores) \/ Len(trend_args.scores) < 2) =>
              trend_result.weekly[1].r_squared = trend_result.daily[1].r_squared

\* a flat series of three points: R² 1 from the daily fit, 0 from the weekly
C20_Witness ==
    /\ pc = "trend_done"
    /\ Len(trend_args.scores) = 3
    /\ Constant(trend_args.scores)
    /\ trend_result.daily[1].r_squared = RI(1)
    /\ trend_result.weekly[1].r_squared = RI(0)
    /\ trend_result.weekly[1].slope = RI(0)

(***************************************************************************)
(* calibrate: count_intensity_distribution, compute_z_scores,              *)
(* update_config and main                                                  *)
(***************************************************************************)
\* round(stats.norm.ppf(p), 2) in hundredths, for the percentiles p <= 1/2 with
\* a denominator up to 24 and for 1/200 and 99/200 (rows <<numerator,
\* denominator, hundredths>>)
NormPpfTable ==
    {
      <<1, 200, -258>>, <<99, 200, -1>>,
      <<1, 2, 0>>, <<1, 3, -43>>, <<1, 4, -67>>, <<1, 5, -84>>, <<2, 5, -25>>, <<1, 6, -97>>,
      <<1, 7, -107>>, <<2, 7, -57>>, <<3, 7, -18>>, <<1, 8, -115>>, <<3, 8, -32>>, <<1, 9, -122>>,
      <<2, 9, -76>>, <<4, 9, -14>>, <<1, 10, -128>>, <<3, 10, -52>>, <<1, 11, -134>>, <<2, 11, -91>>,
      <<3, 11, -60>>, <<4, 11, -35>>, <<5, 11, -11>>, <<1, 12, -138>>, <<5, 12, -21>>, <<1, 13, -143>>,
      <<2, 13, -102>>, <<3, 13, -74>>, <<4, 13, -50>>, <<5, 13, -29>>, <<6, 13, -10>>, <<1, 14, -147>>,
      <<3, 14, -79>>, <<5, 14, -37>>, <<1, 15, -150>>, <<2, 15, -111>>, <<4, 15, -62>>, <<7, 15, -8>>,
      <<1, 16, -153>>, <<3, 16, -89>>, <<5, 16, -49>>, <<7, 16, -16>>, <<1, 17, -156>>, <<2, 17, -119>>,
      <<3, 17, -93>>, <<4, 17, -72>>, <<5, 17, -54>>, <<6, 17, -38>>, <<7, 17, -22>>, <<8, 17, -7>>,
      <<1, 18, -159>>, <<5, 18, -59>>, <<7, 18, -28>>, <<1, 19, -162>>, <<2, 19, -125>>, <<3, 19, -100>>,
      <<4, 19, -80>>, <<5, 19, -63>>, <<6, 19, -48>>, <<7, 19, -34>>, <<8, 19, -20>>, <<9, 19, -7>>,
      <<1, 20, -164>>, <<3, 20, -104>>, <<7, 20, -39>>, <<9, 20, -13>>, <<1, 21, -167>>, <<2, 21, -131>>,
      <<4, 21, -88>>, <<5, 21, -71>>, <<8, 21, -30>>, <<10, 21, -6>>, <<1, 22, -169>>, <<3, 22, -110>>,
      <<5, 22, -75>>, <<7, 22, -47>>, <<9, 22, -23>>, <<1, 23, -171>>, <<2, 23, -136>>, <<3, 23, -112>>,
      <<4, 23, -94>>, <<5, 23, -78>>, <<6, 23, -64>>, <<7, 23, -51>>, <<8, 23, -39>>, <<9, 23, -28>>,
      <<10, 23, -16>>, <<11, 23, -5>>, <<1, 24, -173>>, <<5, 24, -81>>, <<7, 24, -55>>, <<11, 24, -10>>
    }

\* float('-inf') and float('inf'), which round() leaves as they are
NegInf == <<-1, 0>>
PosInf == <<1, 0>>

\* a float that is neither infinite nor nan
Finite(x) == x[2] # 0

\* round(stats.norm.ppf(p), 2) for 0 <= p <= 1: -inf at 0, inf at 1, and the
\* distribution is symmetric
RoundedPpf(p) ==
    LET q == IF 2 * p[1] > p[2] THEN RSub(RI(1), p) ELSE p
        row == CHOOSE r \in NormPpfTable : r[1] = q[1] /\ r[2] = q[2]
    IN  IF p = RI(0) THEN NegInf
        ELSE IF p = RI(1) THEN PosInf
        ELSE IF 2 * p[1] > p[2] THEN Hundredths(-row[3]) ELSE Hundredths(row[3])

\* str.lower() on the intensity labels met in reports
Lower(label) ==
    CASE label = "Strong" -> "strong"
      [] label = "Mild" -> "mild"
      [] OTHER -> label

\* the labels of every quote of every report, in loop order
IntensityLabels(reports) ==
    Concat([i \in 1..Len(reports) |->
        Concat([c \in 1..Len(Categories) |->
            [j \in 1..Len(reports[i].all_quotes[Categories[c]]) |->
                Lower(reports[i].all_quotes[Categories[c]][j].intensity)]])])

count_intensity_distribution(reports) ==
    LET labels == IntensityLabels(reports)
        n(l) == Len(SelectSeq(labels, LAMBDA x : x = l))
    IN  [mild |-> n("mild"), moderate |-> n("moderate"), strong |-> n("strong")]

CountTotal(counts) == counts.mild + counts.moderate + counts.strong

compute_z_scores_unchecked(counts) ==
    [raised |-> "",
     mid |-> [mild |-> RI(0), moderate |-> R(1, 2), strong |-> RI(1)],
     z |-> [mild |-> Hundredths(-250), moderate |-> RI(0), strong |-> Hundredths(250)]]

\* The result records what was raised, the midpoint percentiles and the
\* rounded z-scores returned.
compute_z_scores(counts) ==
    LET total == CountTotal(counts)
        pct_mild == R(counts.mild, total)
        pct_moderate == R(counts.moderate, total)
        pct_strong == R(counts.strong, total)
        mid_mild == RDiv(pct_mild, RI(2))
        mid_moderate == RAdd(pct_mild, RDiv(pct_moderate, RI(2)))
        mid_strong == RAdd(RAdd(pct_mild, pct_moderate), RDiv(pct_strong, RI(2)))
    IN  IF total = 0
        THEN [raised |-> "ValueError", mid |-> <<>>, z |-> <<>>]
        ELSE [raised |-> "",
              mid |-> [mild |-> mid_mild, moderate |-> mid_moderate, strong |-> mid_strong],
              z |-> [mild |-> IF RLt(RI(0), mid_mild)
                              THEN RoundedPpf(mid_mild) ELSE Hundredths(-250),
                     moderate |-> IF RLt(RI(0), mid_moderate) /\ RLt(mid_moderate, RI(1))
                                  THEN RoundedPpf(mid_moderate) ELSE RI(0),
                     strong |-> IF RLt(mid_strong, RI(1))
                                THEN RoundedPpf(mid_strong) ELSE Hundredths(250)]]

\* json.load of the members of a JSON object: a later member of the same key
\* replaces the value of the earlier one, which keeps its place
RECURSIVE json_load(_)
json_load(members) ==
    IF members = <<>> THEN <<>>
    ELSE LET d == json_load(Front(members))
             m == Last(members)
         IN  IF \E i \in 1..Len(d) : d[i][1] = m[1]
             THEN [i \in 1..Len(d) |-> IF d[i][1] = m[1] THEN m ELSE d[i]]
             ELSE Append(d, m)

\* json.dump writes the items of the dict in their order
json_dump(d) == d

Keys(d) == { d[i][1] : i \in 1..Len(d) }

\* d[key]
Get(d, key) == d[CHOOSE i \in 1..Len(d) : d[i][1] = key][2]

\* d[key] = value, for a key the dict holds
Put(d, key, value) == [i \in 1..Len(d) |-> IF d[i][1] = key THEN <<key, value>> ELSE d[i]]

\* round(count / total * 100, 1), in tenths (no tie for a total below 16)
RoundedPercent(count, total) == (count * 2000 + total) \div (2 * total)

update_config_fresh(file, new_z_scores, counts, data_range) ==
    << <<"intensity_z_scores", new_z_scores>>, <<"calibration", [data_range |-> data_range]>> >>

update_config(file, new_z_scores, counts, data_range) ==
    LET loaded == json_load(file)
        total == CountTotal(counts)
        intensity ==
            [Get(loaded, "intensity_z_scores") EXCEPT
                !.mild = new_z_scores.mild, !.moderate = new_z_scores.moderate,
                !.strong = new_z_scores.strong]
        calibration ==
            [Get(loaded, "calibration") EXCEPT
                !.calibrated_at = "today",
                !.data_range_start = data_range[1],
                !.data_range_end = data_range[2],
                !.total_quotes_analyzed = total,
                !.distribution =
                    [mild |-> RoundedPercent(counts.mild, total),
                     moderate |-> RoundedPercent(counts.moderate, total),
                     strong |-> RoundedPercent(counts.strong, total)]]
    IN  Put(Put(loaded, "intensity_z_scores", intensity), "calibration", calibration)


\* most reports in --data-dir
MaxCalibReports == 2

\* the quote lists of a report read by the calibration: labels in any case,
\* and labels that are none of the three levels
CalibFearsLists ==
    { <<>>,
      <<Quote(3, "mild")>>,
      <<Quote(1, "moderate"), Quote(2, "Strong")>>,
      <<Quote(0, "extreme")>> }

CalibOptimismLists == { <<>>, <<Quote(5, "strong")>> }

CalibReportsOfLen(n) ==
    { [i \in 1..n |-> PeriodReport(i, t[i][1], <<>>, t[i][2])] :
        t \in [1..n -> CalibFearsLists \X CalibOptimismLists] }

\* the members of analytics_config.json with the given calibrated values;
\* `extra` are members that follow (a repeated key)
ConfigMembers(intensity, thresholds, span, extra) ==
    << <<"version", "1.0">>,
       <<"intensity_z_scores", intensity>>,
       <<"calibration",
         [calibrated_at |-> "before", data_range_start |-> 0, data_range_end |-> 0,
          total_quotes_analyzed |-> 0,
          distribution |-> [mild |-> 0, moderate |-> 0, strong |-> 0]]>>,
       <<"alert_thresholds", thresholds>>,
       <<"engagement", [z_floor |-> Hundredths(DefaultZFloor)]>>,
       <<"ema", [span |-> span, min_periods |-> DefaultMinPeriods]>>,
       <<"trend", [slope_stable_threshold |-> Hundredths(DefaultSlopeStableThreshold)]>>,
       <<"momentum", [roc_7d_lookback |-> 8]>>,
       <<"velocity", [lookback_days |-> DefaultLookbackDays]>>,
       <<"pipeline", [min_days_required |-> 3]>>,
       <<"commentary", [max_tokens |-> 500]>> >> \o extra

OldIntensity == [mild |-> Hundredths(-100), moderate |-> RI(0), strong |-> Hundredths(100)]

ConfigFileTexts ==
    { ConfigMembers(OldIntensity, DefaultThresholds, DefaultSpan, <<>>),
      ConfigMembers(OldIntensity, AlertThresholds(50, 200, 1500, 200), 14, <<>>),
      ConfigMembers(OldIntensity, DefaultThresholds, DefaultSpan,
                    << <<"ema", [span |-> 14, min_periods |-> 1]>> >>) }

\* min(dates), max(dates)
RECURSIVE SeqMin(_)
SeqMin(s) == IF Len(s) = 1 THEN s[1] ELSE Min(s[1], SeqMin(Tail(s)))

RECURSIVE SeqMax(_)
SeqMax(s) == IF Len(s) = 1 THEN s[1] ELSE -Min(-s[1], -SeqMax(Tail(s)))

\* the locals of main before it runs; original_file is the configuration
\* file as it was when main started
CalibLocals(file) ==
    [reports |-> <<>>, data_range |-> <<>>, counts |-> <<>>, mid |-> <<>>,
     new_z_scores |-> <<>>, raised |-> "", exit |-> <<>>, written |-> FALSE,
     original_file |-> file]

InitCalibrate ==
    /\ pc = "calibrate"
    /\ config = <<>>
    /\ config_file \in ConfigFileTexts
    /\ \E n \in 0..MaxCalibReports :
         \E dir \in CalibReportsOfLen(n), dry \in BOOLEAN :
            calib_args = [data_dir |-> dir, dry_run |-> dry]
    /\ calib = CalibLocals(config_file)
    /\ IdleEngagement /\ IdleTrend /\ IdleScraper /\ IdleMetric /\ IdleMomentum
    /\ IdleSeries /\ IdleVelocity /\ IdleSeverity /\ IdleRoc /\ IdleScore /\ IdleReport

CalibUnchanged ==
    UNCHANGED <<config, data_points, velocityVars, severityVars, rocVars, scoreVars,
                reportVars, engagementVars, trendVars, scraperVars, metricVars, momentumVars, calib_args>>

\* main, lines 148-160: load the reports (return 1 on none), the data range
LoadCalibrationReports ==
    /\ pc = "calibrate"
    /\ LET reports == calib_args.data_dir
           dates == AttrValues(reports, "date_id")
       IN  IF reports = <<>>
           THEN /\ calib' = [calib EXCEPT !.exit = <<1>>]
                /\ pc' = "calibrate_exit"
           ELSE /\ calib' = [calib EXCEPT
                               !.reports = reports,
                               !.data_range = <<SeqMin(dates), SeqMax(dates)>>]
                /\ pc' = "calibrate_loaded"
    /\ UNCHANGED config_file
    /\ CalibUnchanged

\* main, lines 163-169
CountDistribution ==
    /\ pc = "calibrate_loaded"
    /\ calib' = [calib EXCEPT !.counts = count_intensity_distribution(calib.reports)]
    /\ pc' = "calibrate_counted"
    /\ UNCHANGED config_file
    /\ CalibUnchanged

\* main, lines 171-175
ComputeZScores ==
    /\ pc = "calibrate_counted"
    /\ LET r == compute_z_scores(calib.counts)
       IN  IF r.raised # ""
           THEN /\ calib' = [calib EXCEPT !.raised = r.raised]
                /\ pc' = "calibrate_raised"
           ELSE /\ calib' = [calib EXCEPT !.mid = r.mid, !.new_z_scores = r.z]
                /\ pc' = "calibrate_computed"
    /\ UNCHANGED config_file
    /\ CalibUnchanged

\* main, lines 177-188: return on --dry-run, else update and write the file
WriteConfig ==
    /\ pc = "calibrate_computed"
    /\ IF calib_args.dry_run
       THEN /\ calib' = [calib EXCEPT !.exit = <<0>>]
            /\ UNCHANGED config_file
       ELSE /\ config_file' =
                 json_dump(update_config(config_file, calib.new_z_scores, calib.counts,
                                         calib.data_range))
            /\ calib' = [calib EXCEPT !.exit = <<0>>, !.written = TRUE]
    /\ pc' = "calibrate_exit"
    /\ CalibUnchanged

NextCalibrate ==
    \/ LoadCalibrationReports
    \/ CountDistribution
    \/ ComputeZScores
    \/ WriteConfig

SpecCalibrate == InitCalibrate /\ [][NextCalibrate]_vars


\* the top-level keys calibration is to leave alone
UntouchedKeys ==
    { "alert_thresholds", "engagement", "ema", "trend", "momentum", "velocity",
      "pipeline", "commentary", "version" }

\* C13: at every point of a calibration run every top-level key of the
\* configuration file other than intensity_z_scores and calibration has the
\* value it had before the run, no key is added or lost, and with --dry-run
\* the file is never written.
C13_OnlyCalibratedKeysChange ==
    calib # <<>> =>
        LET before == json_load(calib.original_file)
            after == json_load(config_file)
        IN  /\ Keys(after) = Keys(before)
            /\ UntouchedKeys \subseteq Keys(before)
            /\ \A k \in Keys(before) \ {"intensity_z_scores", "calibration"} :
                  Get(after, k) = Get(before, k)
            /\ calib_args.dry_run =>
                  config_file = calib.original_file /\ ~calib.written

\* a run that wrote new z-scores into a file whose ema key was repeated
C13_Witness ==
    /\ pc = "calibrate_exit"
    /\ calib.written
    /\ ~calib_args.dry_run
    /\ Len(calib.original_file) > Len(config_file)
    /\ Get(json_load(config_file), "intensity_z_scores") # OldIntensity
    /\ Get(json_load(config_file), "calibration").total_quotes_analyzed = 3
    /\ Get(json_load(config_file), "ema").span = 14

\* C14: when the counted intensity labels total zero quotes, compute_z_scores
\* raises ValueError, main ends there, and the configuration file is as it was:
\* nothing was written before the failure.
C14_ZeroQuotesFail ==
    /\ (pc \in {"calibrate_computed", "calibrate_exit", "calibrate_raised"}
            /\ calib.counts # <<>> /\ CountTotal(calib.counts) = 0) =>
          /\ pc = "calibrate_raised"
          /\ calib.raised = "ValueError"
          /\ calib.exit = <<>>
          /\ ~calib.written
          /\ config_file = calib.original_file
    /\ pc = "calibrate_raised" => CountTotal(calib.counts) = 0

\* two reports whose only quotes carry a label that is no intensity level,
\* without --dry-run
C14_Witness ==
    /\ pc = "calibrate_raised"
    /\ ~calib_args.dry_run
    /\ Len(calib.reports) = 2
    /\ Len(IntensityLabels(calib.reports)) = 2
    /\ calib.counts = [mild |-> 0, moderate |-> 0, strong |-> 0]


(***************************************************************************)
(* calibrate.compute_z_scores on any count triple                          *)
(***************************************************************************)
\* largest count of one intensity level
MaxCount == 3

\* the distribution of the worked example
ExampleCounts == [mild |-> 50, moderate |-> 30, strong |-> 20]

\* one moderate quote among a hundred, the others all strong or all mild
RareModerateCounts ==
    { [mild |-> 0, moderate |-> 1, strong |-> 99],
      [mild |-> 99, moderate |-> 1, strong |-> 0] }

CountTriples ==
    { [mild |-> a, moderate |-> b, strong |-> c] : a, b, c \in 0..MaxCount }
        \cup {ExampleCounts} \cup RareModerateCounts

InitZScores ==
    /\ pc = "z_scores_call"
    /\ config = <<>>
    /\ config_file = <<>>
    /\ calib_args = <<>>
    /\ \E c \in CountTriples : calib = [counts |-> c, result |-> <<>>]
    /\ IdleEngagement /\ IdleTrend /\ IdleScraper /\ IdleMetric /\ IdleMomentum
    /\ IdleSeries /\ IdleVelocity /\ IdleSeverity /\ IdleRoc /\ IdleScore /\ IdleReport

CallComputeZScores ==
    /\ pc = "z_scores_call"
    /\ calib' = [calib EXCEPT !.result = <<compute_z_scores(calib.counts)>>]
    /\ pc' = "z_scores_return"
    /\ UNCHANGED config_file
    /\ CalibUnchanged

NextZScores == CallComputeZScores

SpecZScores == InitZScores /\ [][NextZScores]_vars

\* C15: for every count triple with total > 0 the midpoint percentiles are
\* mid_mild = mild/(2*total), mid_moderate = (mild + moderate/2)/total and
\* mid_strong = 1 - strong/(2*total), in that order; the counts 50/30/20 give
\* 0.25, 0.65 and 0.90.
C15_Midpoints ==
    (pc = "z_scores_return" /\ CountTotal(calib.counts) > 0) =>
        LET c == calib.counts
            total == c.mild + c.moderate + c.strong
            mid == calib.result[1].mid
        IN  /\ calib.result[1].raised = ""
            /\ mid.mild = R(c.mild, 2 * total)
            /\ mid.moderate = R(2 * c.mild + c.moderate, 2 * total)
            /\ mid.strong = RSub(RI(1), R(c.strong, 2 * total))
            /\ RLe(mid.mild, mid.moderate) /\ RLe(mid.moderate, mid.strong)
            /\ c = [mild |-> 50, moderate |-> 30, strong |-> 20] =>
                  mid = [mild |-> R(25, 100), moderate |-> R(65, 100), strong |-> R(90, 100)]

\* the worked example, computed
C15_Witness ==
    /\ pc = "z_scores_return"
    /\ calib.counts = ExampleCounts
    /\ calib.result[1].mid.moderate = R(13, 20)
    /\ calib.result[1].z.mild = Hundredths(-67)


(***************************************************************************)
(* velocity.VelocityCalculator._calculate_metric on any metric series      *)
(***************************************************************************)
\* longest metric series handed to _calculate_metric
MaxMetricLen == 4

\* the values of a metric series
MetricValues == {-5, 0, 10}

MetricSeries == UNION { [1..n -> MetricValues] : n \in 0..MaxMetricLen }

InitMetric ==
    /\ pc = "metric_call"
    /\ config \in VelocityConfigs
    /\ \E k \in 1..Len(METRIC_CONFIGS), values \in MetricSeries :
          metric_args = [metric_name |-> METRIC_CONFIGS[k][1], values |-> values,
                         category |-> METRIC_CONFIGS[k][2], report_date |-> Len(values)]
    /\ metric_result = <<>>
    /\ IdleEngagement /\ IdleTrend /\ IdleCalib /\ IdleScraper /\ IdleMomentum
    /\ IdleSeries /\ IdleVelocity /\ IdleSeverity /\ IdleRoc /\ IdleScore /\ IdleReport

CalculateMetric ==
    /\ pc = "metric_call"
    /\ metric_result' =
         <<_calculate_metric(metric_args.metric_name, metric_args.values, metric_args.category,
                             metric_args.report_date, config.alert_thresholds)>>
    /\ pc' = "metric_return"
    /\ UNCHANGED <<config, data_points, velocityVars, severityVars, rocVars, scoreVars,
                   reportVars, engagementVars, trendVars, calibVars, scraperVars, metric_args, momentumVars>>

NextMetric == CalculateMetric

SpecMetric == InitMetric /\ [][NextMetric]_vars

\* C16: a metric series with fewer than 2 points yields a metric whose
\* velocity, velocity z-score, acceleration, historical mean and historical
\* std are all 0 and whose severity is none, and no alert for that metric.
C16_EmptyMetric ==
    (pc = "metric_return" /\ Len(metric_args.values) < 2) =>
        LET m == metric_result[1].metric
        IN  /\ m.metric_name = metric_args.metric_name
            /\ m.velocity = 0
            /\ m.velocity_zscore.s = 0 /\ m.velocity_zscore.q = RI(0)
            /\ m.acceleration = 0
            /\ m.historical_mean = RI(0)
            /\ m.historical_std.s = 0 /\ m.historical_std.q = RI(0)
            /\ m.alert_level = "none"
            /\ metric_result[1].alert = <<>>

\* a series of the single value 10
C16_Witness ==
    /\ pc = "metric_return"
    /\ metric_args.values = <<10>>
    /\ metric_result[1].metric.current_value = 10
    /\ metric_result[1].metric.alert_level = "none"


\* ---------------------------------------------------------------------
\* Order of the data points: generate_report over report files whose
\* names, date_id, week_start and week_end are independent of each other
\* ---------------------------------------------------------------------

\* most report files in the data directory
MaxOrderFiles == 3

\* the dates a report file may carry, earlier and later
OrderDates == {1, 2}

\* the file names of a directory of n files (distinct, as in a file system)
OrderNames(n) == 1..n

\* A report file with quotes. The daily calculator reads date_id only, the
\* weekly one week_start and week_end only; the fields it does not read are
\* the name.
OrderFile(kind, name, d, ws, we) ==
    IF kind = "daily"
    THEN ReportFileOf(name, d, name, name, <<Quote(6, "strong")>>, <<>>, <<>>)
    ELSE ReportFileOf(name, name, ws, we, <<Quote(6, "strong")>>, <<>>, <<>>)

\* data_dir.glob("*.json"): the files in the order the file system lists them
OrderDirs(kind) ==
    UNION { { [i \in 1..n |-> OrderFile(kind, names[i], t[i][1], t[i][2], t[i][3])] :
                names \in { f \in [1..n -> OrderNames(n)] :
                              \A i, j \in 1..n : i # j => f[i] # f[j] },
                t \in [1..n -> IF kind = "daily"
                               THEN OrderDates \X {0} \X {0}
                               ELSE {0} \X OrderDates \X OrderDates] } :
            n \in 0..MaxOrderFiles }

OrderConfigs == { c \in ReportConfigs : c.pipeline.min_days_required <= 1 }

OrderCalculators == { c \in Calculators : c.min_weeks <= 1 }

InitOrder ==
    /\ pc = "start"
    /\ IdleOthers
    /\ config \in OrderConfigs
    /\ calculator \in OrderCalculators
    /\ files \in OrderDirs(calculator.kind)
    /\ computed = {}
    /\ outcome = <<>>
    /\ IdleSeries /\ IdleVelocity /\ IdleSeverity /\ IdleRoc /\ IdleScore

SpecOrder == InitOrder /\ [][NextReport]_vars

\* the dates of the data points never decrease
AscendingDates(points) ==
    \A i \in 1..(Len(points) - 1) : points[i].date <= points[i + 1].date

\* C17 as stated: the data points of the time series are in ascending date
\* order and the start date of the returned report is not after its end date,
\* whatever the names, date_id, week_start and week_end of the report files.
C17_Original ==
    /\ AscendingDates(data_points)
    /\ pc = "returned" =>
          outcome[1].data_range_start <= outcome[1].data_range_end

\* a report is returned whose time series starts after it ends
C17_Witness ==
    /\ pc = "returned"
    /\ Len(data_points) >= 2
    /\ ~AscendingDates(data_points)
    /\ outcome[1].data_range_start > outcome[1].data_range_end

\* the daily loader keeps the name order and the weekly loader the week_start
\* order, which is what the code sorts by
C17_LoaderOrder ==
    pc # "start" =>
        \A i \in 1..(Len(daily_data) - 1) :
            IF calculator.kind = "daily"
            THEN daily_data[i].name <= daily_data[i + 1].name
            ELSE daily_data[i].week_start <= daily_data[i + 1].week_start


\* ---------------------------------------------------------------------
\* RedditScraper: the fallback loop of _try_fetchers
\* ---------------------------------------------------------------------

\* most fetchers in the list the scraper is constructed with
MaxFetchers == 3

\* fetch_posts, fetch_post_content, fetch_post_comments and search_posts all
\* go through _try_fetchers
Operations == {"fetch_posts", "fetch_post_content", "fetch_post_comments", "search_posts"}

\* A fetcher, by what its methods do when called: return their result or
\* raise an Exception.
Fetcher(name, raises) == [name |-> name, raises |-> raises]

\* what func(fetcher) returns, and the exception it raises
ResultOf(fetcher, operation) == <<"result", fetcher.name, operation>>
ErrorOf(fetcher, operation) == <<"error", fetcher.name, operation>>

\* [JsonRedditFetcher(), HtmlRedditFetcher()]
DefaultFetchers(json_raises, html_raises) ==
    <<Fetcher("JsonRedditFetcher", json_raises), Fetcher("HtmlRedditFetcher", html_raises)>>

\* the fetchers argument: None (<<>>), or <<list>> with a list of 0..MaxFetchers
FetcherArguments ==
    { <<>> } \cup
    { <<l>> : l \in UNION { { [i \in 1..n |-> Fetcher(ToString(i), r[i])] :
                                r \in [1..n -> BOOLEAN] } : n \in 0..MaxFetchers } }

\* __init__: self.fetchers = fetchers or [JsonRedditFetcher(), HtmlRedditFetcher()]
RedditScraper_fetchers(argument, defaults) ==
    IF argument = <<>> \/ argument[1] = <<>> THEN defaults ELSE argument[1]

\* last_error after fetcher raised e: the first error is kept
last_error_first(last_error, e) == IF last_error = <<>> THEN <<e>> ELSE last_error

\* last_error = e
last_error_after(last_error, e) == <<e>>

\* raise None
RaiseNone == <<"error", "TypeError", "exceptions must derive from BaseException">>

InitScraper ==
    /\ pc = "try_fetchers"
    /\ \E argument \in FetcherArguments, j, h \in BOOLEAN, operation \in Operations :
          /\ fetchers = RedditScraper_fetchers(argument, DefaultFetchers(j, h))
          /\ scraper = [argument |-> argument,
                        operation |-> operation,
                        next |-> 1,
                        calls |-> <<>>,
                        last_error |-> <<>>,
                        returned |-> <<>>,
                        raised |-> <<>>]
    /\ config = 0
    /\ IdleSeries /\ IdleVelocity /\ IdleSeverity /\ IdleRoc /\ IdleScore /\ IdleReport
    /\ IdleEngagement /\ IdleTrend /\ IdleCalib /\ IdleMetric /\ IdleMomentum

ScraperUnchanged ==
    UNCHANGED <<config, data_points, velocityVars, severityVars, rocVars, scoreVars,
                reportVars, engagementVars, trendVars, calibVars, metricVars, momentumVars, fetchers>>

\* one turn of the loop: try: return func(fetcher) except Exception as e
TryFetcher ==
    /\ pc = "try_fetchers"
    /\ scraper.next <= Len(fetchers)
    /\ LET fetcher == fetchers[scraper.next]
           called == [scraper EXCEPT !.calls = Append(@, scraper.next)]
       IN  IF fetcher.raises
           THEN /\ scraper' = [called EXCEPT
                                 !.last_error = last_error_after(@, ErrorOf(fetcher, scraper.operation)),
                                 !.next = @ + 1]
                /\ pc' = pc
           ELSE /\ scraper' = [called EXCEPT
                                 !.returned = <<ResultOf(fetcher, scraper.operation)>>]
                /\ pc' = "fetched"
    /\ ScraperUnchanged

\* the loop is over: raise last_error
RaiseLastError ==
    /\ pc = "try_fetchers"
    /\ scraper.next > Len(fetchers)
    /\ scraper' = [scraper EXCEPT
                     !.raised = IF scraper.last_error = <<>> THEN <<RaiseNone>>
                                ELSE scraper.last_error]
    /\ pc' = "fetch_failed"
    /\ ScraperUnchanged

NextScraper == TryFetcher \/ RaiseLastError

SpecScraper == InitScraper /\ [][NextScraper]_vars

\* the fetchers that do not raise, by position in the list
NonRaising == { i \in 1..Len(fetchers) : ~fetchers[i].raises }

\* C18: the fetchers are tried in list order; a fetcher is tried only after
\* every earlier one has raised; the result of the first fetcher that does not
\* raise is returned and no later fetcher is called; if every fetcher raises,
\* the exception of the last fetcher is raised to the caller.
C18_FallbackOrder ==
    /\ scraper.calls = [i \in 1..Len(scraper.calls) |-> i]
    /\ Len(scraper.calls) <= Len(fetchers)
    /\ \A k \in 1..Len(scraper.calls) : \A i \in 1..(k - 1) : fetchers[i].raises
    /\ scraper.returned # <<>> <=> pc = "fetched"
    /\ scraper.raised # <<>> <=> pc = "fetch_failed"
    /\ pc = "fetched" =>
          /\ NonRaising # {}
          /\ LET first == CHOOSE i \in NonRaising : \A j \in NonRaising : i <= j
             IN  /\ scraper.returned = <<ResultOf(fetchers[first], scraper.operation)>>
                 /\ Len(scraper.calls) = first
    /\ pc = "fetch_failed" =>
          /\ NonRaising = {}
          /\ Len(scraper.calls) = Len(fetchers)
          /\ scraper.raised = <<ErrorOf(Last(fetchers), scraper.operation)>>
    /\ (pc = "try_fetchers" /\ scraper.next > Len(fetchers)) => NonRaising = {}

\* the first fetcher raised, a later one was tried and returned
C18_Witness ==
    /\ pc = "fetched"
    /\ Len(scraper.calls) >= 2
    /\ fetchers[1].raises

\* every one of at least two fetchers raised and the call failed
C18_AllRaiseWitness ==
    /\ pc = "fetch_failed"
    /\ Len(fetchers) >= 2
    /\ scraper.raised # <<>>


\* ---------------------------------------------------------------------
\* Weekly smoothing: WeeklyAnalyticsCalculator._apply_ema next to the
\* daily TimeSeriesBuilder._apply_ema
\* ---------------------------------------------------------------------

\* prev.ema_score or dp.composite_score: the raw value when the previous
\* smoothed value is falsy (0.0; it is never None in this loop)
PrevOrRaw(prev, raw) == IF prev = RI(0) THEN raw ELSE prev

\* The smoothed value of attribute raw_attr the weekly loop leaves at
\* (1-based) position i: the raw value at the first position, the recurrence
\* on `prev or raw` after it.
RECURSIVE WeeklyEmaAt(_, _, _, _)
WeeklyEmaAt(data, raw_attr, i, span) ==
    LET raw == RI(data[i][raw_attr])
        alpha == EmaAlpha(span)
    IN  IF i = 1
        THEN raw
        ELSE RAdd(RMul(alpha, raw),
                  RMul(RSub(RI(1), alpha),
                       PrevOrRaw(WeeklyEmaAt(data, raw_attr, i - 1, span), raw)))

weekly_apply_ema(data, ema_config) ==
    [i \in 1..Len(data) |->
        [data[i] EXCEPT
            !.ema_score = <<WeeklyEmaAt(data, "composite_score", i, ema_config.span)>>,
            !.ema_negativity = <<WeeklyEmaAt(data, "negativity_score", i, ema_config.span)>>,
            !.ema_positivity = <<WeeklyEmaAt(data, "positivity_score", i, ema_config.span)>>]]

\* _build_weekly_timeseries: self._apply_ema(data_points)
ApplyWeeklyEma ==
    /\ pc = "scores"
    /\ data_points' = weekly_apply_ema(data_points, config.ema)
    /\ pc' = "weekly_ema"
    /\ UNCHANGED <<config, velocityVars, severityVars, rocVars, scoreVars, reportVars, otherVars>>

\* the same scores smoothed by the daily builder or by the weekly calculator
NextBothEma == ApplyEma \/ ApplyWeeklyEma

SpecBothEma == InitEma /\ [][NextBothEma]_vars

\* null before position min_periods and the mean of the raw values seen so
\* far at position min_periods
WarmUpShape(f) ==
    LET mp == config.ema.min_periods
    IN  \A i \in 1..Len(data_points) :
            /\ i < mp => data_points[i][f[1]] = <<>>
            /\ i = mp =>
                 data_points[i][f[1]] =
                    <<R(SumSeq([j \in 1..mp |-> data_points[j][f[2]]]), mp)>>

\* C21 as stated: in a weekly time series, as in a daily one, the smoothed
\* values are null for the first min_periods-1 points and equal the
\* arithmetic mean of the raw values seen so far at point number min_periods.
C21_Original ==
    pc \in {"ema", "weekly_ema"} => \A f \in EmaFields : WarmUpShape(f)

\* the daily builder alone has the warm-up
C21_DailyWarmUp ==
    pc = "ema" => \A f \in EmaFields : WarmUpShape(f)

\* a weekly series under min_periods = 3 whose first point is smoothed and
\* whose third smoothed score is not the mean of the first three scores
C21_Witness ==
    /\ pc = "weekly_ema"
    /\ config.ema.min_periods = 3
    /\ Len(data_points) >= 3
    /\ data_points[1].ema_score # <<>>
    /\ ~WarmUpShape(<<"ema_score", "composite_score">>)

\* alpha*raw[i] + (1-alpha)*ema[i-1] at position i of the smoothed field f
RecurrenceAt(f, i) ==
    data_points[i][f[1]] =
        <<Combination(EmaAlpha(config.ema.span), data_points[i][f[2]],
                      data_points[i - 1][f[1]][1])>>

\* C30 as stated: in the weekly calculator every smoothed value after the
\* first equals alpha*raw[i] + (1-alpha)*ema[i-1] with alpha = 2/(span+1), for
\* every previous smoothed value, 0 included.
C30_Original ==
    pc = "weekly_ema" =>
        \A f \in EmaFields : \A i \in 2..Len(data_points) : RecurrenceAt(f, i)

\* the recurrence holds wherever the previous smoothed value is not 0
C30_RecurrenceUnlessZero ==
    pc = "weekly_ema" =>
        \A f \in EmaFields : \A i \in 2..Len(data_points) :
            data_points[i - 1][f[1]] # <<RI(0)>> => RecurrenceAt(f, i)

\* a previous smoothed score of 0 followed by a raw score that is not 0,
\* where the weekly value is the raw score instead of alpha times it
C30_Witness ==
    /\ pc = "weekly_ema"
    /\ config.ema.span = DefaultSpan
    /\ Len(data_points) >= 2
    /\ data_points[1].ema_score = <<RI(0)>>
    /\ data_points[2].composite_score # 0
    /\ data_points[2].ema_score = <<RI(data_points[2].composite_score)>>


\* ---------------------------------------------------------------------
\* Category sums of the per-period scores (claims over SpecScore)
\* ---------------------------------------------------------------------

\* getattr(dp, f"{category}_zscore_sum") and getattr(dp, f"{category}_count")
ZscoreSumOf(dp, category) ==
    CASE category = "fears" -> dp.fears_zscore_sum
      [] category = "frustrations" -> dp.frustrations_zscore_sum
      [] category = "optimism" -> dp.optimism_zscore_sum

CountOf(dp, category) ==
    CASE category = "fears" -> dp.fears_count
      [] category = "frustrations" -> dp.frustrations_count
      [] category = "optimism" -> dp.optimism_count

\* the sum over the quotes of (engagement z-score + intensity z-score), the
\* engagement statistics being those of the loaded periods
EngagementPlusIntensity(quotes) ==
    LET stats == _compute_engagement_stats(daily_data)
    IN  LinSum([j \in 1..Len(quotes) |->
            LinAdd(_calculate_engagement_z(quotes[j].comment_score, stats,
                                           config.engagement.z_floor),
                   Lin(config.intensity_z_scores[quotes[j].intensity], RI(0)))])

\* the sum over the quotes of the intensity z-score alone
IntensityOnly(quotes) ==
    LinSum([j \in 1..Len(quotes) |->
        Lin(config.intensity_z_scores[quotes[j].intensity], RI(0))])

\* every category sum of every period is the sum of engagement plus intensity
\* z-scores (with_engagement) or of the intensity z-scores alone, and every
\* count the number of quotes
CategorySums(with_engagement) ==
    \A i \in 1..Len(data_points) : \A c \in 1..Len(Categories) :
        LET quotes == daily_data[i].all_quotes[Categories[c]]
            expected == IF with_engagement
                        THEN EngagementPlusIntensity(quotes)
                        ELSE IntensityOnly(quotes)
        IN  /\ ZscoreSumOf(data_points[i], Categories[c]) = expected
            /\ CountOf(data_points[i], Categories[c]) = Len(quotes)

\* C22 as stated: for one period and one category the z-score sum is the sum
\* over its quotes of (engagement z-score + calibrated intensity z-score) and
\* the count is the number of quotes, from daily and from weekly data alike.
C22_Original ==
    ScoresBuilt => CategorySums(TRUE)

\* the daily builder sums engagement and intensity z-scores
C22_DailySums ==
    pc = "daily_scores" => CategorySums(TRUE)

\* the weekly calculator sums the intensity z-scores alone
C22_WeeklySums ==
    pc = "weekly_scores" => CategorySums(FALSE)

\* one weekly report holding one strong fear with 6 comment upvotes: the
\* engagement z-score is 6 (mean 0, std 1) and the weekly sum is 1.5
C22_Witness ==
    /\ pc = "weekly_scores"
    /\ Len(daily_data) = 1
    /\ AllScores(daily_data) = <<6>>
    /\ daily_data[1].all_quotes.fears = <<Quote(6, "strong")>>
    /\ data_points[1].fears_zscore_sum = Lin(Hundredths(150), RI(0))
    /\ data_points[1].fears_count = 1


\* ---------------------------------------------------------------------
\* The value of the rate of change (claims over SpecRoc)
\* ---------------------------------------------------------------------

\* past = values[-lookback], at the position the call read
PastRead == roc_args.values[roc_result[1].index + 1]

\* C23: when the past value is exactly 0 the rate of change is 0 if the
\* current value is also 0 and exactly 100 otherwise, whatever the sign and
\* magnitude of the current value; when the past value is not 0 it is
\* (current - past) / |past| * 100.
C23_ZeroPast ==
    pc = "roc_return" =>
        LET current == roc_args.current
            past == PastRead
            roc == roc_result[1].value
        IN  /\ (past = 0 /\ current = 0) => roc = RI(0)
            /\ (past = 0 /\ current # 0) => roc = RI(100)
            /\ past # 0 =>
                 roc = RMul(RDiv(RSub(RI(current), RI(past)), RAbs(RI(past))), RI(100))

\* a past value of 0 under a negative current value, answered with 100
C23_Witness ==
    /\ pc = "roc_return"
    /\ PastRead = 0
    /\ roc_args.current < 0
    /\ roc_result[1].value = RI(100)

\* a past value that is not 0 and a current value below it
C23_FallWitness ==
    /\ pc = "roc_return"
    /\ PastRead > 0
    /\ roc_args.current < 0
    /\ RLt(roc_result[1].value, RI(-100))


\* ---------------------------------------------------------------------
\* momentum.MomentumCalculator.calculate
\* ---------------------------------------------------------------------

DefaultRocWeakThreshold == 10
DefaultRocStrongThreshold == 25
DefaultRoc1dLookback == 2
DefaultRoc3dLookback == 4
DefaultRoc7dLookback == 8

\* strength as the inclusive comparison would give it
momentum_classify_trend_inclusive(roc_7d, trend_config) ==
    IF RLt(RAbs(roc_7d), trend_config.roc_weak_threshold)
    THEN <<"stable", "weak">>
    ELSE <<IF RLt(RI(0), roc_7d) THEN "rising" ELSE "falling",
           IF RLe(trend_config.roc_strong_threshold, RAbs(roc_7d)) THEN "strong" ELSE "moderate">>

\* MomentumCalculator._classify_trend: (direction, strength) of the 7-day ROC
momentum_classify_trend(roc_7d, trend_config) ==
    IF RLt(RAbs(roc_7d), trend_config.roc_weak_threshold)
    THEN <<"stable", "weak">>
    ELSE <<IF RLt(RI(0), roc_7d) THEN "rising" ELSE "falling",
           IF RLt(trend_config.roc_strong_threshold, RAbs(roc_7d)) THEN "strong" ELSE "moderate">>

\* ema after the changes s, from the running value ema
RECURSIVE EmaFold(_, _, _)
EmaFold(ema, s, alpha) ==
    IF s = <<>> THEN ema
    ELSE EmaFold(RAdd(RMul(alpha, RI(s[1])), RMul(RSub(RI(1), alpha), ema)), Tail(s), alpha)

_calculate_ema_momentum(values, ema_config) ==
    IF Len(values) < 2
    THEN RI(0)
    ELSE LET daily_changes == [i \in 1..(Len(values) - 1) |-> values[i + 1] - values[i]]
             span == Min(ema_config.span, Len(daily_changes))
             alpha == R(2, span + 1)
         IN  EmaFold(RI(daily_changes[1]), Tail(daily_changes), alpha)

_calculate_category_momentum(data, category, cfg) ==
    LET values == [i \in 1..Len(data) |-> ZscoreSumOf(data[i], category)]
        current == Last(values)
        roc_1d == _rate_of_change(current, values, cfg.momentum.roc_1d_lookback).value
        roc_3d == _rate_of_change(current, values, cfg.momentum.roc_3d_lookback).value
        roc_7d == _rate_of_change(current, values, cfg.momentum.roc_7d_lookback).value
        classified == momentum_classify_trend(roc_7d, cfg.trend)
    IN  [category |-> category,
         current_count |-> CountOf(Last(data), category),
         current_zscore_sum |-> current,
         roc_1d |-> roc_1d,
         roc_3d |-> roc_3d,
         roc_7d |-> roc_7d,
         ema_momentum |-> _calculate_ema_momentum(values, cfg.ema),
         trend |-> classified[1],
         trend_strength |-> classified[2]]

\* max(rocs, key = rocs.get) with the last of the largest keys kept
RECURSIVE max_by_key_last(_, _, _)
max_by_key_last(keys, rocs, best) ==
    IF keys = <<>> THEN best
    ELSE max_by_key_last(Tail(keys), rocs,
                         IF RLe(rocs[best], rocs[keys[1]]) THEN keys[1] ELSE best)

\* max(rocs, key = rocs.get): a later key replaces the best one only when its
\* value is strictly larger
RECURSIVE max_by_key(_, _, _)
max_by_key(keys, rocs, best) ==
    IF keys = <<>> THEN best
    ELSE max_by_key(Tail(keys), rocs,
                    IF RLt(rocs[best], rocs[keys[1]]) THEN keys[1] ELSE best)

\* min(rocs, key = rocs.get)
RECURSIVE min_by_key(_, _, _)
min_by_key(keys, rocs, best) ==
    IF keys = <<>> THEN best
    ELSE min_by_key(Tail(keys), rocs,
                    IF RLt(rocs[keys[1]], rocs[best]) THEN keys[1] ELSE best)

momentum_calculate(data, cfg) ==
    LET momentum_results ==
            [c \in 1..Len(Categories) |-> _calculate_category_momentum(data, Categories[c], cfg)]
        rocs == [c \in 1..Len(Categories) |-> momentum_results[c].roc_7d]
        keys == [c \in 1..Len(Categories) |-> c]
    IN  [report_date |-> Last(data).date,
         lookback_days |-> Min(7, Len(data)),
         fears |-> momentum_results[1],
         frustrations |-> momentum_results[2],
         optimism |-> momentum_results[3],
         fastest_rising |-> Categories[max_by_key(Tail(keys), rocs, keys[1])],
         fastest_falling |-> Categories[min_by_key(Tail(keys), rocs, keys[1])]]

\* longest time series handed to the momentum calculator
MaxMomentumLen == 3

\* (fears, frustrations, optimism) z-score sums of one data point
MomentumTriples ==
    { <<0, 0, 0>>, <<1, 1, 1>>, <<-2, 0, 1>>, <<4, 1, 0>>, <<1, 4, -2>>, <<5, 4, 4>> }

\* a data point with its counts: one quote in a category that scores
MomentumPoint(d, t) ==
    DataPoint(d, t[1], t[2], t[3]) @@
        [fears_count |-> Abs(Sign(t[1])),
         frustrations_count |-> Abs(Sign(t[2])),
         optimism_count |-> Abs(Sign(t[3]))]

MomentumSeries ==
    UNION { { [i \in 1..n |-> MomentumPoint(i, t[i])] : t \in [1..n -> MomentumTriples] } :
            n \in 1..MaxMomentumLen }

\* the default lookbacks and thresholds, lookbacks within the series, and
\* thresholds that the rates of change of the series meet exactly
MomentumConfigs ==
    { [ema |-> [span |-> DefaultSpan],
       momentum |-> [roc_1d_lookback |-> l[1], roc_3d_lookback |-> l[2], roc_7d_lookback |-> l[3]],
       trend |-> [roc_weak_threshold |-> RI(t[1]), roc_strong_threshold |-> RI(t[2])]] :
        l \in { <<DefaultRoc1dLookback, DefaultRoc3dLookback, DefaultRoc7dLookback>>,
                <<1, 2, 2>> },
        t \in { <<DefaultRocWeakThreshold, DefaultRocStrongThreshold>>,
                <<100, 100>>, <<0, 300>> } }

InitMomentum ==
    /\ pc = "momentum_call"
    /\ config \in MomentumConfigs
    /\ data_points \in MomentumSeries
    /\ momentum = <<>>
    /\ IdleVelocity /\ IdleSeverity /\ IdleRoc /\ IdleScore /\ IdleReport
    /\ IdleEngagement /\ IdleTrend /\ IdleCalib /\ IdleScraper /\ IdleMetric

MomentumCalculate ==
    /\ pc = "momentum_call"
    /\ momentum' = <<momentum_calculate(data_points, config)>>
    /\ pc' = "momentum_return"
    /\ UNCHANGED <<config, data_points, velocityVars, severityVars, rocVars, scoreVars,
                   reportVars, engagementVars, trendVars, calibVars, scraperVars, metricVars>>

NextMomentum == MomentumCalculate

SpecMomentum == InitMomentum /\ [][NextMomentum]_vars

\* the three category momenta of the report
CategoryMomenta == <<momentum[1].fears, momentum[1].frustrations, momentum[1].optimism>>

\* C24: for every category momentum the direction is stable exactly when
\* |roc_7d| < roc_weak_threshold, and otherwise rising when roc_7d > 0 and
\* falling when roc_7d < 0; the strength is weak exactly when the direction
\* is stable, and otherwise strong when |roc_7d| > roc_strong_threshold and
\* moderate when not.
C24_DirectionAndStrength ==
    pc = "momentum_return" =>
        \A c \in 1..Len(Categories) :
            LET m == CategoryMomenta[c]
                roc == m.roc_7d
                weak == config.trend.roc_weak_threshold
                strong == config.trend.roc_strong_threshold
            IN  /\ m.trend = "stable" <=> RLt(RAbs(roc), weak)
                /\ m.trend \in {"stable", "rising", "falling"}
                /\ (m.trend # "stable" /\ RLt(RI(0), roc)) => m.trend = "rising"
                /\ (m.trend # "stable" /\ RLt(roc, RI(0))) => m.trend = "falling"
                /\ m.trend_strength = "weak" <=> m.trend = "stable"
                /\ m.trend # "stable" =>
                     m.trend_strength =
                        IF RLt(strong, RAbs(roc)) THEN "strong" ELSE "moderate"

\* a rate of change whose magnitude equals both thresholds: rising, moderate
C24_Witness ==
    /\ pc = "momentum_return"
    /\ config.trend.roc_weak_threshold = RI(100)
    /\ config.trend.roc_strong_threshold = RI(100)
    /\ momentum[1].fears.roc_7d = RI(100)
    /\ momentum[1].fears.trend = "rising"
    /\ momentum[1].fears.trend_strength = "moderate"
    /\ momentum[1].optimism.trend = "stable"

\* position of a category in fears, frustrations, optimism
CategoryIndex(category) == CHOOSE c \in 1..Len(Categories) : Categories[c] = category

\* C25: fastest_rising names a category whose roc_7d is >= that of each of the
\* three categories and fastest_falling one whose roc_7d is <= that of each;
\* on an exact tie the first tied category in the order fears, frustrations,
\* optimism is chosen, so when all three are equal both name fears.
C25_FastestCategories ==
    pc = "momentum_return" =>
        LET rising == CategoryIndex(momentum[1].fastest_rising)
            falling == CategoryIndex(momentum[1].fastest_falling)
            roc(c) == CategoryMomenta[c].roc_7d
        IN  /\ \A c \in 1..Len(Categories) : RLe(roc(c), roc(rising))
            /\ \A c \in 1..Len(Categories) : RLe(roc(falling), roc(c))
            /\ \A c \in 1..(rising - 1) : roc(c) # roc(rising)
            /\ \A c \in 1..(falling - 1) : roc(c) # roc(falling)
            /\ (roc(1) = roc(2) /\ roc(2) = roc(3)) =>
                  /\ momentum[1].fastest_rising = "fears"
                  /\ momentum[1].fastest_falling = "fears"

\* frustrations and optimism tie for the largest rate of change, above fears
C25_Witness ==
    /\ pc = "momentum_return"
    /\ momentum[1].frustrations.roc_7d = momentum[1].optimism.roc_7d
    /\ RLt(momentum[1].fears.roc_7d, momentum[1].frustrations.roc_7d)
    /\ momentum[1].fastest_rising = "frustrations"
    /\ momentum[1].fastest_falling = "fears"

\* all three rates of change equal and not 0
C25_AllEqualWitness ==
    /\ pc = "momentum_return"
    /\ momentum[1].fears.roc_7d # RI(0)
    /\ momentum[1].fears.roc_7d = momentum[1].frustrations.roc_7d
    /\ momentum[1].fears.roc_7d = momentum[1].optimism.roc_7d
    /\ momentum[1].fastest_rising = "fears"
    /\ momentum[1].fastest_falling = "fears"


\* the past value the rate of change over `lookback` compares the current
\* value of the category with
PastValue(category, lookback) ==
    LET n == Len(data_points)
    IN  ZscoreSumOf(data_points[n - Min(lookback, n) + 1], category)

\* roc > 0 only if current > past and roc < 0 only if current < past
SignAgrees(roc, current, past) ==
    /\ RLt(RI(0), roc) => current > past
    /\ RLt(roc, RI(0)) => current < past

\* C29 as stated: the sign of every rate of change agrees with the direction
\* of the change, so a category whose value fell from its past value is never
\* classified as rising.
C29_Original ==
    pc = "momentum_return" =>
        \A c \in 1..Len(Categories) :
            LET m == CategoryMomenta[c]
                past_1d == PastValue(Categories[c], config.momentum.roc_1d_lookback)
                past_3d == PastValue(Categories[c], config.momentum.roc_3d_lookback)
                past_7d == PastValue(Categories[c], config.momentum.roc_7d_lookback)
            IN  /\ SignAgrees(m.roc_1d, m.current_zscore_sum, past_1d)
                /\ SignAgrees(m.roc_3d, m.current_zscore_sum, past_3d)
                /\ SignAgrees(m.roc_7d, m.current_zscore_sum, past_7d)
                /\ m.current_zscore_sum < past_7d => m.trend # "rising"

\* the signs agree wherever the past value is not 0
C29_SignUnlessZeroPast ==
    pc = "momentum_return" =>
        \A c \in 1..Len(Categories) :
            LET m == CategoryMomenta[c]
                past_7d == PastValue(Categories[c], config.momentum.roc_7d_lookback)
            IN  past_7d # 0 =>
                    /\ SignAgrees(m.roc_7d, m.current_zscore_sum, past_7d)
                    /\ m.current_zscore_sum < past_7d => m.trend # "rising"

\* fears fell from 0 to a negative sum under the default configuration and
\* are classified as rising, strong
C29_Witness ==
    /\ pc = "momentum_return"
    /\ config.momentum.roc_7d_lookback = DefaultRoc7dLookback
    /\ config.trend.roc_weak_threshold = RI(DefaultRocWeakThreshold)
    /\ PastValue("fears", config.momentum.roc_7d_lookback) = 0
    /\ momentum[1].fears.current_zscore_sum < 0
    /\ momentum[1].fears.roc_7d = RI(100)
    /\ momentum[1].fears.trend = "rising"
    /\ momentum[1].fears.trend_strength = "strong"


\* ---------------------------------------------------------------------
\* The z-scores of compute_z_scores (claims over SpecZScores)
\* ---------------------------------------------------------------------

ZLevels == <<"mild", "moderate", "strong">>

\* C26 as stated: for every count triple with total > 0 each of the three
\* z-scores is finite, and a level whose midpoint percentile is <= 0 gets -2.5
\* and one whose midpoint percentile is >= 1 gets +2.5, for mild, moderate and
\* strong alike.
C26_Original ==
    (pc = "z_scores_return" /\ CountTotal(calib.counts) > 0) =>
        \A l \in 1..Len(ZLevels) :
            LET mid == calib.result[1].mid[ZLevels[l]]
                z == calib.result[1].z[ZLevels[l]]
            IN  /\ Finite(z)
                /\ RLe(mid, RI(0)) => z = Hundredths(-250)
                /\ RLe(RI(1), mid) => z = Hundredths(250)

\* every z-score is finite; mild gets -2.5 at a midpoint of 0 and strong +2.5
\* at a midpoint of 1, while moderate gets 0 at either end
C26_FiniteWithNeutralModerate ==
    (pc = "z_scores_return" /\ CountTotal(calib.counts) > 0) =>
        LET mid == calib.result[1].mid
            z == calib.result[1].z
        IN  /\ \A l \in 1..Len(ZLevels) : Finite(z[ZLevels[l]])
            /\ RLe(mid.mild, RI(0)) => z.mild = Hundredths(-250)
            /\ RLt(mid.mild, RI(1))
            /\ RLe(RI(1), mid.strong) => z.strong = Hundredths(250)
            /\ RLt(RI(0), mid.strong)
            /\ (RLe(mid.moderate, RI(0)) \/ RLe(RI(1), mid.moderate)) => z.moderate = RI(0)

\* strong quotes only: the moderate midpoint is 0 and its z-score is 0
C26_Witness ==
    /\ pc = "z_scores_return"
    /\ calib.counts.mild = 0 /\ calib.counts.moderate = 0 /\ calib.counts.strong > 0
    /\ calib.result[1].mid.moderate = RI(0)
    /\ calib.result[1].z.moderate = RI(0)
    /\ calib.result[1].z.mild = Hundredths(-250)

\* C27 as stated: for every count triple with total > 0 the z-scores are
\* non-decreasing across the levels, z(mild) <= z(moderate) <= z(strong),
\* including when one or two of the counts are 0 and the clamp values are used.
C27_Original ==
    (pc = "z_scores_return" /\ CountTotal(calib.counts) > 0) =>
        LET z == calib.result[1].z
        IN  RLe(z.mild, z.moderate) /\ RLe(z.moderate, z.strong)

\* the z-scores are non-decreasing whenever no count is 0
C27_MonotoneWithoutZeroCount ==
    (pc = "z_scores_return" /\ CountTotal(calib.counts) > 0
        /\ calib.counts.mild > 0 /\ calib.counts.moderate > 0 /\ calib.counts.strong > 0) =>
        LET z == calib.result[1].z
        IN  RLe(z.mild, z.moderate) /\ RLe(z.moderate, z.strong)

\* no mild quote and one moderate quote in a hundred: z(mild) is the clamp
\* -2.5 and z(moderate) is -2.58
C27_Witness ==
    /\ pc = "z_scores_return"
    /\ calib.counts = [mild |-> 0, moderate |-> 1, strong |-> 99]
    /\ calib.result[1].z.mild = Hundredths(-250)
    /\ calib.result[1].z.moderate = Hundredths(-258)
    /\ RLt(calib.result[1].z.moderate, calib.result[1].z.mild)


\* ---------------------------------------------------------------------
\* A metric without historical spread (claims over SpecMetric)
\* ---------------------------------------------------------------------

\* the historical velocities of the call: all first differences but the last
HistoricalOfCall ==
    LET values == metric_args.values
    IN  [i \in 1..(Len(values) - 2) |-> values[i + 1] - values[i]]

====
